---- MODULE Spec2Model ----
(***************************************************************************)
(* Model of the resume search pipeline of cv-explorer-demo:                *)
(*   - searchResumes.execute      (src/app/api/chat/route.ts)              *)
(*   - parseSearchQuery, generateMatchAnalysis (same file)                 *)
(*   - semanticSearchResumes, getResumes (src/unnamed/part_000)            *)
(*   - getVectorStore, closeVectorStore (src/lib/ai/vectors.ts)            *)
(*   - chunkText                  (src/lib/ai/vectors.ts)                  *)
(*   - addResume                  (src/unnamed/part_000)                   *)
(*   - extractResumeContent       (src/unnamed/part_000)                   *)
(*                                                                         *)
(* Units.  Similarity scores of the store are integers in ten-thousandths  *)
(* (8000 is 0.8), scores after toFixed(3)/parseFloat are in thousandths    *)
(* (800 is 0.8), percentages are in hundredths of a percent (7250 is       *)
(* 72.5%).  Optional values are sequences: <<>> is undefined/null, <<v>>   *)
(* is the value v.                                                         *)
(***************************************************************************)
EXTENDS Integers, Sequences, FiniteSets, TLC

\* ------------------------------------------------------------------ bounds
MaxRows == 2        \* rows of the embedding table
MaxLimit == 2       \* largest limit the tool is called with
NumCallers == 3     \* concurrent callers of getVectorStore
MaxCalls == 2       \* getVectorStore calls made by one caller
MaxScore == 1199    \* largest semantic score of the fallback, in thousandths
MaxTextLen == 5     \* longest text chunkText is called with
MaxChunkSize == 4   \* largest maxChunkSize
MaxOverlap == 3     \* largest overlap
MaxContentLen == 3  \* longest content addResume is called with
MaxExtractLen == 2  \* characters of the short texts of extractResumeContent
MaxCloses == 2      \* calls of closeVectorStore

\* ---------------------------------------------------------------- options
None == <<>>
Some(v) == <<v>>
IsSome(o) == o # <<>>
Val(o) == o[1]

\* -------------------------------------------------------------- JS helpers
\* String.prototype.trim() followed by the falsy test of the result: the
\* query strings of the model that consist of white space only.
BlankStrings == {"", "  "}
IsBlank(s) == s \in BlankStrings

\* truthiness of an optional string, number or array length
TruthyStr(o) == IsSome(o) /\ Val(o) # ""
\* a test for undefined in place of the truthiness test
DefinedNum(o) == IsSome(o)
TruthyNum(o) == IsSome(o) /\ Val(o) # 0
TruthyLen(o) == IsSome(o) /\ Len(Val(o)) > 0

RECURSIVE JoinStr(_, _)
\* Array.prototype.join(sep) on an array of strings
JoinStr(parts, sep) ==
  IF Len(parts) = 0 THEN ""
  ELSE IF Len(parts) = 1 THEN parts[1]
  ELSE parts[1] \o sep \o JoinStr(Tail(parts), sep)

RECURSIVE SumSeq(_)
SumSeq(s) == IF s = <<>> THEN 0 ELSE Head(s) + SumSeq(Tail(s))

Reverse(s) == [i \in 1..Len(s) |-> s[Len(s) + 1 - i]]

\* ------------------------------------------------- rows of the vector table
\* A row of langchain_pg_embedding: the document text and the metadata that
\* was stored with it.  pageContent is "json" when the text is a complete
\* JSON.stringify(parsedData), "chunk" when it is one chunk of a longer one
\* (no valid JSON), "text" when it was stored by addVectors directly.
\* metaSummary is the metadata's summary key: absent, or a text whose
\* "Score: <digits>" part (if it has one) is given in thousandths.
RowFull == [metaId |-> Some("r1"), metaSummary |-> Some([score |-> None]),
            pageContent |-> "json"]
RowChunk == [metaId |-> Some("r2"), metaSummary |-> Some([score |-> None]),
             pageContent |-> "chunk"]
RowPlain == [metaId |-> None, metaSummary |-> None, pageContent |-> "text"]
RowKinds == {RowFull, RowChunk, RowPlain}

\* similarity scores the store may report, in ten-thousandths; none ends in
\* 5, where the binary expansion of the double decides toFixed's rounding
ScoreValues == {1000, 2853}

\* ------------------------------------------------------ search criteria
\* SearchCriteriaSchema: every field optional.  maxYears, industries and
\* institution are never read by execute and are left out.
SkillFull == [name |-> "React", category |-> Some("framework"),
              minSeniority |-> Some("advanced")]
SkillBare == [name |-> "SQL", category |-> None, minSeniority |-> None]
SkillLevel == [name |-> "Go", category |-> None, minSeniority |-> Some("expert")]

OptStrings(s) == {None, Some(""), Some(s)}
PositionValues ==
  {None} \cup {Some([title |-> t, seniority |-> s]) :
                 t \in OptStrings("React developer"), s \in {None, Some("senior")}}
SkillsValues == {None, Some(<<>>), Some(<<SkillFull>>), Some(<<SkillBare, SkillLevel>>)}
ExperienceValues ==
  {None} \cup {Some([minYears |-> y, companies |-> c]) :
                 y \in {None, Some(0), Some(5)},
                 c \in {None, Some(<<>>), Some(<<"Google", "Meta">>)}}
EducationValues ==
  {None} \cup {Some([degree |-> d, field |-> f]) :
                 d \in OptStrings("MSc"), f \in OptStrings("CS")}
LocationValues == OptStrings("Paris")
SoftSkillsValues == {None, Some(<<>>), Some(<<"teamwork">>)}

AllCriteria ==
  [position : PositionValues, skills : SkillsValues, experience : ExperienceValues,
   education : EducationValues, location : LocationValues, softSkills : SoftSkillsValues]

EmptyCriteria ==
  [position |-> None, skills |-> None, experience |-> None, education |-> None,
   location |-> None, softSkills |-> None]
HollowCriteria ==
  [position |-> Some([title |-> Some(""), seniority |-> None]), skills |-> Some(<<>>),
   experience |-> Some([minYears |-> None, companies |-> Some(<<>>)]),
   education |-> Some([degree |-> Some(""), field |-> None]),
   location |-> Some(""), softSkills |-> Some(<<>>)]
RichCriteria ==
  [position |-> Some([title |-> Some("React developer"), seniority |-> Some("senior")]),
   skills |-> Some(<<SkillFull>>),
   experience |-> Some([minYears |-> Some(5), companies |-> Some(<<"Google", "Meta">>)]),
   education |-> None, location |-> Some("Paris"), softSkills |-> None]
\* the criteria the parser returns in the full pipeline
FewCriteria == {EmptyCriteria, HollowCriteria, RichCriteria}

\* optional chaining: o?.f
Chain(o, f) == IF IsSome(o) THEN Val(o)[f] ELSE None

\* ------------------------------------------------ the enriched query string
\* route.ts:179-184, the text of one skill
SkillText(skill) ==
  skill.name
    \o (IF TruthyStr(skill.minSeniority)
          THEN " (" \o Val(skill.minSeniority) \o " level)" ELSE "")
    \o (IF TruthyStr(skill.category) THEN " [" \o Val(skill.category) \o "]" ELSE "")

\* route.ts:168-210, enhancedQueryParts after the nine if-statements
EnhancedQueryParts(c) ==
  LET title == Chain(c.position, "title")
      seniority == Chain(c.position, "seniority")
      minYears == Chain(c.experience, "minYears")
      companies == Chain(c.experience, "companies")
      degree == Chain(c.education, "degree")
      field == Chain(c.education, "field")
  IN  (IF TruthyStr(title) THEN <<"position: " \o Val(title)>> ELSE <<>>)
   \o (IF TruthyStr(seniority) THEN <<"seniority: " \o Val(seniority)>> ELSE <<>>)
   \o (IF TruthyLen(c.skills)
         THEN <<"skills: "
                  \o JoinStr([i \in 1..Len(Val(c.skills)) |-> SkillText(Val(c.skills)[i])],
                             ", ")>>
         ELSE <<>>)
   \o (IF TruthyNum(minYears)
         THEN <<"minimum " \o ToString(Val(minYears)) \o " years experience">> ELSE <<>>)
   \o (IF TruthyLen(companies)
         THEN <<"companies: " \o JoinStr(Val(companies), ", ")>> ELSE <<>>)
   \o (IF TruthyStr(degree) THEN <<"education: " \o Val(degree)>> ELSE <<>>)
   \o (IF TruthyStr(field) THEN <<"field: " \o Val(field)>> ELSE <<>>)
   \o (IF TruthyStr(c.location) THEN <<"location: " \o Val(c.location)>> ELSE <<>>)
   \o (IF TruthyLen(c.softSkills)
         THEN <<"soft skills: " \o JoinStr(Val(c.softSkills), ", ")>> ELSE <<>>)

\* the join without the test of route.ts:212
BuildSearchQueryNoFallback(q, criteria) ==
  IF IsSome(criteria) THEN JoinStr(EnhancedQueryParts(Val(criteria)), " | ") ELSE q

\* route.ts:159-216, searchQuery for the criteria the parser returned
\* (criteria is None when it returned null or was not called)
BuildSearchQuery(q, criteria) ==
  IF IsSome(criteria) /\ Len(EnhancedQueryParts(Val(criteria))) > 0
    THEN JoinStr(EnhancedQueryParts(Val(criteria)), " | ")
    ELSE q

\* ------------------------------------------------------------- arithmetic
\* semanticScore * 100 in IEEE doubles, for a score given in thousandths,
\* in hundredths of a percent.  For the scores below 1.2 listed here the
\* product of the nearest double with 100 lies just below the half (0.285 *
\* 100 is 28.499999999999996); for the others the deviation of the product
\* does not change a rounding.
ProductBelowHalf == {145, 285, 565, 575, 1005, 1015, 1025, 1035}
Times100(k) == k * 10 - (IF k \in ProductBelowHalf THEN 1 ELSE 0)

MathMax(a, b) == IF a >= b THEN a ELSE b
MathMin(a, b) == IF a <= b THEN a ELSE b
\* Math.round on hundredths of a percent: floor(x + 0.5)
MathRound(x) == ((x + 50) \div 100) * 100
\* Math.floor(sum / n) in place of Math.round
FlooredQuotient(sum, n) == (sum \div (100 * n)) * 100
\* Math.round(sum / n) for a sum in hundredths of a percent
RoundedQuotient(sum, n) == ((2 * sum + 100 * n) \div (200 * n)) * 100

\* Number.prototype.toFixed(3) of a score in ten-thousandths: the digits, in
\* thousandths
ToFixed3(score) == (score + 5) \div 10

\* ------------------------------------------------------------------- state
VARIABLES
  store,                 \* the rows of langchain_pg_embedding, by row number
  pc,                    \* where searchResumes.execute stands
  query, limit, useStructuredSearch,   \* its arguments
  parserOutcome,         \* how the generateObject call of route.ts:36 ended
  parsedCriteria,        \* route.ts:160
  enhancedQueryParts,    \* route.ts:168
  searchQuery,           \* route.ts:159
  retrievalCall,         \* the arguments semanticSearchResumes was called with
  vectorResults,         \* part_000:467, the (row, score) pairs of the store
  resumes,               \* route.ts:218
  tasks,                 \* the async callbacks of route.ts:221, one per resume
  resultsWithConfidence, \* the slots of Promise.all, route.ts:221
  result,                \* the SearchResult returned, route.ts:257
  thrown,                \* the error execute rejected with
  vectorStoreInstance,   \* vectors.ts:46
  initialized,           \* the handles PGVectorStore.initialize has created
  callerPc,              \* where each caller of getVectorStore stands
  callerStore,           \* the handle each caller's last call returned
  callerCalls,           \* the calls each caller has made
  closePc,               \* where the call of closeVectorStore stands
  closeCalls,            \* the calls of closeVectorStore made
  ended,                 \* the handles whose end() has been called
  text, maxChunkSize, overlap,         \* the arguments of chunkText
  chunkPc,               \* where the call of chunkText stands
  start,                 \* vectors.ts:91
  chunks,                \* vectors.ts:90, and the list returned
  ranges,                \* the [start, end) pairs cut at vectors.ts:117
  resumeContent,         \* the content addResume is called with
  cmetadata,             \* the metadata addResume is called with
  addPc,                 \* where the call of addResume stands
  parseResumeCall,       \* the text parseResume was called with
  parsedData,            \* part_000:727
  combinedCmetadata,     \* part_000:730
  addVectorsCall,        \* what addVectors was called with
  addDocumentsCall,      \* what the store's addDocuments was called with
  loggedError,           \* the error the outer catch has logged
  addOutcome,            \* how the call of addResume ended
  extractContent,        \* the text extractResumeContent is called with
  extractPc,             \* where the call of extractResumeContent stands
  cleanedContent,        \* part_000:523
  sections,              \* part_000:531
  extracted              \* the text extractResumeContent returned

searchVars == <<pc, query, limit, useStructuredSearch, parserOutcome, parsedCriteria,
                enhancedQueryParts, searchQuery, retrievalCall, vectorResults, resumes,
                tasks, resultsWithConfidence, result, thrown>>
storeVars == <<vectorStoreInstance, initialized, callerPc, callerStore, callerCalls,
               closePc, closeCalls, ended>>
chunkVars == <<text, maxChunkSize, overlap, chunkPc, start, chunks, ranges>>
addVars == <<resumeContent, cmetadata, addPc, parseResumeCall, parsedData,
             combinedCmetadata, addVectorsCall, addDocumentsCall, loggedError, addOutcome>>
extractVars == <<extractContent, extractPc, cleanedContent, sections, extracted>>
vars == <<store, searchVars, storeVars, chunkVars, addVars, extractVars>>

Queries == {"", "  ", "senior React developer 5+ years"}
Callers == 1..NumCallers

\* ------------------------------------------------------------ the retriever
\* part_000:479-494, one (doc, score) pair as ResumeData; i is its position,
\* which stands for the Date.now()/Math.random() part of a generated id
VectorResultToResume(pair, i) ==
  [id |-> IF TruthyStr(pair.doc.metaId) THEN Val(pair.doc.metaId)
          ELSE "langchain-" \o ToString(i),
   document |-> pair.doc.pageContent,
   summary |-> IF IsSome(pair.doc.metaSummary) THEN pair.doc.metaSummary
               ELSE Some([score |-> Some(ToFixed3(pair.score))])]

\* a threshold that lets a score of exactly 0.1 through
ReachesThreshold(pair) == pair.score >= 1000

\* part_000:478, the confidence threshold of 0.1
PassesThreshold(pair) == pair.score > 1000

\* part_000:477-495, filter and map (the position is the one after filter)
ConvertVectorResults(pairs) ==
  LET kept == SelectSeq(pairs, PassesThreshold)
  IN  [i \in 1..Len(kept) |-> VectorResultToResume(kept[i], i)]

\* part_000:321-350, getResumes: every row, ORDER BY id DESC; the row id is
\* the uuid addVectors gave the row, here its row number
getResumes(rows) ==
  Reverse([i \in 1..Len(rows) |->
    [id |-> "row-" \o ToString(i),
     document |-> rows[i].pageContent,
     summary |-> IF IsSome(rows[i].metaSummary) THEN rows[i].metaSummary
                 ELSE Some([score |-> None])]])

\* what similaritySearchWithScore(query, k) may return: k rows of the table
\* (all of them if there are fewer), in any order, with any scores
StoreAnswers(rows, k) ==
  LET n == MathMin(k, Len(rows))
  IN  {[i \in 1..n |-> [doc |-> rows[pick[i]], score |-> sc[i]]] :
         pick \in {f \in [1..n -> 1..Len(rows)] :
                     \A a, b \in 1..n : a # b => f[a] # f[b]},
         sc \in [1..n -> ScoreValues]}

\* --------------------------------------------------------------- the scorer
\* route.ts:223-224
ExtractRawScore(resume) ==
  IF IsSome(resume.summary) /\ IsSome(Val(resume.summary).score)
    THEN Val(Val(resume.summary).score) ELSE 0

\* the document handed on as it is when JSON.parse throws
ParseDocumentRaw(resume) == IF resume.document = "json" THEN "resume" ELSE resume.document

\* route.ts:227-234, JSON.parse of the document, {} when it throws
ParseDocument(resume) == IF resume.document = "json" THEN "resume" ELSE "{}"

SubScoreKeys == {"positionMatch", "seniorityMatch", "skillsMatch", "experienceMatch",
                 "educationMatch", "locationMatch", "softSkillsMatch"}
\* what generateObject may return for the analysis schema, route.ts:77-91
\* (percentage is z.number().min(0).max(100): 72.5 and 100)
AnalysisValues ==
  {[percentage |-> 7250, details |-> {"keyStrengths", "potentialConcerns", "skillsMatch"}],
   [percentage |-> 10000,
    details |-> {"keyStrengths", "potentialConcerns"} \cup SubScoreKeys]}

\* the fallback with Math.floor in place of Math.round
FallbackAnalysisFloored(semanticScore) ==
  [percentage |-> (MathMin(10000, MathMax(0, Times100(semanticScore))) \div 100) * 100,
   details |-> {"keyStrengths", "potentialConcerns"}]

\* the fallback without Math.round
FallbackAnalysisUnrounded(semanticScore) ==
  [percentage |-> MathMin(10000, MathMax(0, Times100(semanticScore))),
   details |-> {"keyStrengths", "potentialConcerns"}]

\* route.ts:121-129, the fallback of generateMatchAnalysis
FallbackAnalysis(semanticScore) ==
  [percentage |-> MathRound(MathMin(10000, MathMax(0, Times100(semanticScore)))),
   details |-> {"keyStrengths", "potentialConcerns"}]

\* route.ts:239-249
ScoredCandidate(resume, rawScore, matchAnalysis) ==
  [id |-> resume.id, content |-> resume.document, confidence |-> matchAnalysis.percentage,
   rawScore |-> rawScore, matchDetails |-> matchAnalysis.details]

\* the values collected in the order in which the promises settle
SettleInCompletionOrder(slots, i, value) ==
  LET free == CHOOSE k \in 1..Len(slots) :
                /\ ~IsSome(slots[k])
                /\ \A j \in 1..(k - 1) : IsSome(slots[j])
  IN  [slots EXCEPT ![free] = Some(value)]

\* Promise.all: the value of the i-th promise goes to the i-th slot
Settle(slots, i, value) == [slots EXCEPT ![i] = Some(value)]

\* route.ts:253-255
AverageConfidence(candidates) ==
  IF Len(candidates) > 0
    THEN RoundedQuotient(SumSeq([i \in 1..Len(candidates) |-> candidates[i].confidence]),
                         Len(candidates))
    ELSE 0

\* ------------------------------------------------- outcomes of awaited calls
\* An awaited call either returns a value or throws.
Returned(v) == [threw |-> FALSE, value |-> v]
Threw(e) == [threw |-> TRUE, value |-> e]

\* parseSearchQuery without its try/catch
parseSearchQueryUncaught(generated) ==
  IF generated.threw THEN generated ELSE Returned(Some(generated.value))

\* route.ts:34-65: generateObject's outcome becomes the criteria, or null
parseSearchQuery(generated) ==
  IF generated.threw THEN Returned(None) ELSE Returned(Some(generated.value))

\* generateMatchAnalysis without its try/catch
generateMatchAnalysisUncaught(generated, semanticScore) == generated

\* route.ts:68-131: generateObject's outcome becomes the analysis, or the
\* fallback computed from the semantic score
generateMatchAnalysis(generated, semanticScore) ==
  IF generated.threw THEN Returned(FallbackAnalysis(semanticScore))
  ELSE Returned(generated.value)

\* semanticSearchResumes with a catch that answers with no record
semanticSearchResumesSwallowing(q, fetched) ==
  IF fetched.threw THEN Returned(<<>>)
  ELSE IF IsBlank(q) THEN Returned(getResumes(fetched.value))
  ELSE Returned(ConvertVectorResults(fetched.value))

\* part_000:455-503: fetched is the outcome of the awaited data access, the
\* rows of getResumes for a blank query and the pairs of
\* searchVectorsWithScore otherwise
semanticSearchResumes(q, fetched) ==
  IF fetched.threw THEN Threw("Failed to perform semantic search")
  ELSE IF IsBlank(q) THEN Returned(getResumes(fetched.value))
  ELSE Returned(ConvertVectorResults(fetched.value))

\* ---------------------------------------------------------------- Init
InitSearch ==
  /\ pc = "idle"
  /\ query = "" /\ limit = 0 /\ useStructuredSearch = FALSE
  /\ parserOutcome = "not called"
  /\ parsedCriteria = None /\ enhancedQueryParts = <<>> /\ searchQuery = ""
  /\ retrievalCall = None
  /\ vectorResults = <<>> /\ resumes = <<>> /\ tasks = <<>>
  /\ resultsWithConfidence = <<>> /\ result = None /\ thrown = None

\* chunkText has not been called
InitNoChunking ==
  /\ text = <<>> /\ maxChunkSize = 0 /\ overlap = 0
  /\ chunkPc = "idle" /\ start = 0 /\ chunks = <<>> /\ ranges = <<>>

\* addResume has not been called
InitNoIngestion ==
  /\ resumeContent = <<>> /\ cmetadata = None /\ addPc = "idle"
  /\ parseResumeCall = None /\ parsedData = None /\ combinedCmetadata = None
  /\ addVectorsCall = None /\ addDocumentsCall = None
  /\ loggedError = None /\ addOutcome = None

\* extractResumeContent has not been called
InitNoExtraction ==
  /\ extractContent = <<>> /\ extractPc = "idle" /\ cleanedContent = <<>>
  /\ sections = <<>> /\ extracted = None

InitSingleton ==
  /\ vectorStoreInstance = None
  /\ initialized = {}
  /\ callerPc = [p \in Callers |-> "idle"]
  /\ callerStore = [p \in Callers |-> None]
  /\ callerCalls = [p \in Callers |-> 0]
  /\ closePc = "idle" /\ closeCalls = 0 /\ ended = {}

Init ==
  /\ store \in UNION {[1..n -> RowKinds] : n \in 0..MaxRows}
  /\ InitSearch
  /\ InitSingleton
  /\ InitNoChunking
  /\ InitNoIngestion
  /\ InitNoExtraction

\* ------------------------------------------------- searchResumes.execute
\* route.ts:166-216 and the call of route.ts:218, after parseSearchQuery
\* has settled with r
AfterParse(r) ==
  IF r.threw
    THEN /\ pc' = "failed"
         /\ thrown' = Some(r.value)
         /\ UNCHANGED <<parsedCriteria, enhancedQueryParts, searchQuery, retrievalCall>>
    ELSE /\ parsedCriteria' = r.value
         /\ enhancedQueryParts' =
              IF IsSome(r.value) THEN EnhancedQueryParts(Val(r.value)) ELSE <<>>
         /\ searchQuery' = BuildSearchQuery(query, r.value)
         /\ retrievalCall' = Some([query |-> BuildSearchQuery(query, r.value),
                                   limit |-> limit])
         /\ pc' = "retrieving"
         /\ UNCHANGED thrown

\* the test of the flag left out: the parser is never awaited
AwaitsParserNever(u) == FALSE

\* route.ts:163, the parser is called and awaited when the flag is set
AwaitsParser(u) == u

\* route.ts:158-164, and 218 when useStructuredSearch is false
Start(q, l, u) ==
  /\ pc = "idle"
  /\ query' = q /\ limit' = l /\ useStructuredSearch' = u
  /\ searchQuery' = q
  /\ parsedCriteria' = None
  /\ pc' = IF AwaitsParser(u) THEN "parsing" ELSE "retrieving"
  /\ retrievalCall' = IF AwaitsParser(u) THEN None ELSE Some([query |-> q, limit |-> l])
  /\ UNCHANGED <<store, parserOutcome, enhancedQueryParts, vectorResults, resumes, tasks,
                 resultsWithConfidence, result, thrown, storeVars, chunkVars, addVars, extractVars>>

\* route.ts:164, the parser returns criteria of the set C
ParseReturns(C) ==
  /\ pc = "parsing"
  /\ parserOutcome' = "returned"
  /\ \E c \in C : AfterParse(parseSearchQuery(Returned(c)))
  /\ UNCHANGED <<store, query, limit, useStructuredSearch, vectorResults, resumes, tasks,
                 resultsWithConfidence, result, storeVars, chunkVars, addVars, extractVars>>

\* route.ts:164, structured extraction fails
ParseThrows ==
  /\ pc = "parsing"
  /\ parserOutcome' = "threw"
  /\ AfterParse(parseSearchQuery(Threw("extraction failed")))
  /\ UNCHANGED <<store, query, limit, useStructuredSearch, vectorResults, resumes, tasks,
                 resultsWithConfidence, result, storeVars, chunkVars, addVars, extractVars>>

\* route.ts:221-237, the callbacks of resumes.map up to their await; each
\* records how its generateObject call ended
SpawnTasks(rs, criteria, originalQuery) ==
  [i \in 1..Len(rs) |->
     [state |-> "pending", generated |-> "pending",
      rawScore |-> ExtractRawScore(rs[i]),
      resumeData |-> ParseDocument(rs[i]),
      criteria |-> criteria,
      originalQuery |-> originalQuery]]

\* route.ts:218-237 after semanticSearchResumes has settled with r: the
\* callbacks of resumes.map run up to their await of generateMatchAnalysis
AfterRetrieve(r) ==
  IF r.threw
    THEN /\ pc' = "failed"
         /\ thrown' = Some(r.value)
         /\ UNCHANGED <<resumes, tasks, resultsWithConfidence>>
    ELSE /\ resumes' = r.value
         /\ tasks' = SpawnTasks(r.value, parsedCriteria, query)
         /\ resultsWithConfidence' = [i \in 1..Len(r.value) |-> None]
         /\ pc' = "scoring"
         /\ UNCHANGED thrown

\* route.ts:218, the data access of semanticSearchResumes answers
RetrieveReturns ==
  /\ pc = "retrieving"
  /\ \E answer \in (IF IsBlank(Val(retrievalCall).query) THEN {store}
                    ELSE StoreAnswers(store, Val(retrievalCall).limit)) :
       /\ vectorResults' = IF IsBlank(Val(retrievalCall).query) THEN <<>> ELSE answer
       /\ AfterRetrieve(semanticSearchResumes(Val(retrievalCall).query,
                                              Returned(answer)))
  /\ UNCHANGED <<store, query, limit, useStructuredSearch, parserOutcome, parsedCriteria,
                 enhancedQueryParts, searchQuery, retrievalCall, result, storeVars, chunkVars, addVars, extractVars>>

\* route.ts:218, the data access of semanticSearchResumes fails
RetrieveThrows ==
  /\ pc = "retrieving"
  /\ AfterRetrieve(semanticSearchResumes(Val(retrievalCall).query,
                                         Threw("store unreachable")))
  /\ UNCHANGED <<store, query, limit, useStructuredSearch, parserOutcome, parsedCriteria,
                 enhancedQueryParts, searchQuery, retrievalCall, vectorResults, result,
                 storeVars, chunkVars, addVars, extractVars>>

\* route.ts:237-249 after generateMatchAnalysis has settled with r in the
\* i-th callback; a rejected callback rejects Promise.all and execute.  how
\* records the way the generateObject call of route.ts:75 ended
AfterScore(i, r, how) ==
  IF r.threw
    THEN /\ pc' = "failed"
         /\ thrown' = Some(r.value)
         /\ UNCHANGED <<tasks, resultsWithConfidence>>
    ELSE /\ tasks' = [tasks EXCEPT ![i].state = "done", ![i].generated = how]
         /\ resultsWithConfidence' =
              Settle(resultsWithConfidence, i,
                     ScoredCandidate(resumes[i], tasks[i].rawScore, r.value))
         /\ UNCHANGED <<pc, thrown>>

\* route.ts:237, structured scoring answers for the i-th candidate
ScoreReturns ==
  /\ pc = "scoring"
  /\ \E i \in 1..Len(tasks) :
       /\ tasks[i].state = "pending"
       /\ \E a \in AnalysisValues :
            AfterScore(i, generateMatchAnalysis(Returned(a), tasks[i].rawScore),
                       "returned")
  /\ UNCHANGED <<store, query, limit, useStructuredSearch, parserOutcome, parsedCriteria,
                 enhancedQueryParts, searchQuery, retrievalCall, vectorResults, resumes,
                 result, storeVars, chunkVars, addVars, extractVars>>

\* route.ts:237, structured scoring fails for the i-th candidate
ScoreThrows ==
  /\ pc = "scoring"
  /\ \E i \in 1..Len(tasks) :
       /\ tasks[i].state = "pending"
       /\ AfterScore(i, generateMatchAnalysis(Threw("scoring failed"), tasks[i].rawScore),
                     "threw")
  /\ UNCHANGED <<store, query, limit, useStructuredSearch, parserOutcome, parsedCriteria,
                 enhancedQueryParts, searchQuery, retrievalCall, vectorResults, resumes,
                 result, storeVars, chunkVars, addVars, extractVars>>

\* route.ts:252-264, Promise.all has resolved
Aggregate ==
  /\ pc = "scoring"
  /\ \A i \in 1..Len(tasks) : tasks[i].state = "done"
  /\ LET candidates == [i \in 1..Len(resultsWithConfidence) |->
                          Val(resultsWithConfidence[i])]
     IN  result' = Some([totalResults |-> Len(candidates),
                         averageConfidence |-> AverageConfidence(candidates),
                         query |-> searchQuery,
                         originalQuery |-> query,
                         parsedCriteria |-> parsedCriteria,
                         candidates |-> candidates])
  /\ pc' = "done"
  /\ UNCHANGED <<store, query, limit, useStructuredSearch, parserOutcome, parsedCriteria,
                 enhancedQueryParts, searchQuery, retrievalCall, vectorResults, resumes,
                 tasks, resultsWithConfidence, thrown, storeVars, chunkVars, addVars, extractVars>>

StartSearch == \E q \in Queries, l \in 1..MaxLimit, u \in BOOLEAN : Start(q, l, u)
ParseReturnsFew == ParseReturns(FewCriteria)

Next ==
  \/ StartSearch
  \/ ParseReturnsFew
  \/ ParseThrows
  \/ RetrieveReturns
  \/ RetrieveThrows
  \/ ScoreReturns
  \/ ScoreThrows
  \/ Aggregate

Spec == Init /\ [][Next]_vars

\* ----------------------------------------------- the enriched query alone
\* searchResumes.execute with useStructuredSearch and every criteria object
\* of the schema, up to its call of semanticSearchResumes
InitEnrich ==
  /\ store = <<>> /\ InitSearch /\ InitSingleton
  /\ InitNoChunking /\ InitNoIngestion /\ InitNoExtraction
StartStructured == \E q \in Queries : Start(q, MaxLimit, TRUE)
ParseReturnsAny == ParseReturns(AllCriteria)
NextEnrich == StartStructured \/ ParseReturnsAny \/ ParseThrows
SpecEnrich == InitEnrich /\ [][NextEnrich]_vars

\* ------------------------------------------------------- getVectorStore
\* the handle PGVectorStore.initialize creates in the c-th call of caller p
Handle(p, c) == [by |-> p, call |-> c]

\* vectors.ts:49, the test of the singleton at the start of a call
NeedsInitialize(instance) == ~IsSome(instance)

\* vectors.ts:48-55 and 58: a call up to its await of initialize, or to its
\* return when the instance is set
GetVectorStoreBegins(p) ==
  /\ callerPc[p] \in {"idle", "returned", "threw"}
  /\ callerCalls[p] < MaxCalls
  /\ callerCalls' = [callerCalls EXCEPT ![p] = @ + 1]
  /\ IF NeedsInitialize(vectorStoreInstance)
       THEN /\ initialized' = initialized \cup {Handle(p, callerCalls[p] + 1)}
            /\ callerPc' = [callerPc EXCEPT ![p] = "initializing"]
            /\ callerStore' = [callerStore EXCEPT ![p] = None]
       ELSE /\ callerPc' = [callerPc EXCEPT ![p] = "returned"]
            /\ callerStore' = [callerStore EXCEPT ![p] = vectorStoreInstance]
            /\ UNCHANGED initialized
  /\ UNCHANGED <<vectorStoreInstance, closePc, closeCalls, ended, store, searchVars,
                 chunkVars, addVars, extractVars>>

\* vectors.ts:55-58, initialize resolves: the instance is assigned and returned
InitializeReturns(p) ==
  /\ callerPc[p] = "initializing"
  /\ vectorStoreInstance' = Some(Handle(p, callerCalls[p]))
  /\ callerStore' = [callerStore EXCEPT ![p] = Some(Handle(p, callerCalls[p]))]
  /\ callerPc' = [callerPc EXCEPT ![p] = "returned"]
  /\ UNCHANGED <<initialized, callerCalls, closePc, closeCalls, ended, store, searchVars,
                 chunkVars, addVars, extractVars>>

\* vectors.ts:55, initialize rejects: the call rejects, the instance is not set
InitializeThrows(p) ==
  /\ callerPc[p] = "initializing"
  /\ callerPc' = [callerPc EXCEPT ![p] = "threw"]
  /\ UNCHANGED <<vectorStoreInstance, initialized, callerStore, callerCalls, closePc,
                 closeCalls, ended, store, searchVars, chunkVars, addVars, extractVars>>

CallBegins == \E p \in Callers : GetVectorStoreBegins(p)
CallReturns == \E p \in Callers : InitializeReturns(p)
CallThrows == \E p \in Callers : InitializeThrows(p)

NextStore == CallBegins \/ CallReturns \/ CallThrows
SpecStore == InitEnrich /\ [][NextStore]_vars

\* vectors.ts:157-160: a call of closeVectorStore up to its await of end(),
\* or to its return when there is no instance
CloseVectorStoreBegins ==
  /\ closePc = "idle"
  /\ closeCalls < MaxCloses
  /\ closeCalls' = closeCalls + 1
  /\ IF IsSome(vectorStoreInstance)
       THEN /\ ended' = ended \cup {Val(vectorStoreInstance)}
            /\ closePc' = "ending"
       ELSE UNCHANGED <<ended, closePc>>
  /\ UNCHANGED <<vectorStoreInstance, initialized, callerPc, callerStore, callerCalls,
                 store, searchVars, chunkVars, addVars, extractVars>>

\* vectors.ts:159-161, end() resolves: the instance is set to null
EndReturns ==
  /\ closePc = "ending"
  /\ vectorStoreInstance' = None
  /\ closePc' = "idle"
  /\ UNCHANGED <<initialized, callerPc, callerStore, callerCalls, closeCalls, ended,
                 store, searchVars, chunkVars, addVars, extractVars>>

\* vectors.ts:159, end() rejects: closeVectorStore rejects, the instance stays
EndThrows ==
  /\ closePc = "ending"
  /\ closePc' = "idle"
  /\ UNCHANGED <<vectorStoreInstance, initialized, callerPc, callerStore, callerCalls,
                 closeCalls, ended, store, searchVars, chunkVars, addVars, extractVars>>

\* the callers of getVectorStore and the calls of closeVectorStore, in any
\* order the event loop allows
NextClose ==
  \/ CallBegins
  \/ CallReturns
  \/ CallThrows
  \/ CloseVectorStoreBegins
  \/ EndReturns
  \/ EndThrows
SpecClose == InitEnrich /\ [][NextClose]_vars

\* ------------------------------------------------ the scoring fallback alone
\* one candidate whose summary carries the score k, at the await of its
\* generateMatchAnalysis call, for every k
InitFallback ==
  /\ store = <<>>
  /\ InitSingleton
  /\ InitNoChunking
  /\ InitNoIngestion
  /\ InitNoExtraction
  /\ pc = "scoring"
  /\ query = "senior React developer 5+ years" /\ limit = MaxLimit
  /\ useStructuredSearch = FALSE /\ parserOutcome = "not called"
  /\ parsedCriteria = None /\ enhancedQueryParts = <<>>
  /\ searchQuery = query
  /\ retrievalCall = Some([query |-> query, limit |-> limit])
  /\ vectorResults = <<>>
  /\ \E k \in 0..MaxScore :
       resumes = <<[id |-> "r1", document |-> "json",
                    summary |-> Some([score |-> Some(k)])]>>
  /\ tasks = SpawnTasks(resumes, parsedCriteria, query)
  /\ resultsWithConfidence = <<None>>
  /\ result = None /\ thrown = None
NextFallback == ScoreThrows \/ Aggregate
SpecFallback == InitFallback /\ [][NextFallback]_vars

\* ------------------------------------------------------------- chunkText
\* Strings are sequences of characters; JavaScript counts their positions
\* from 0, Sequences from 1.  The texts are made of a letter, a space and
\* a full stop, the one of the three sentence terminators they contain.
Alphabet == {"a", " ", "."}
Texts == UNION {[1..n -> Alphabet] : n \in 0..MaxTextLen}
\* the values of the parameters: integers, the negative ones and 0 included
ChunkSizes == -1..MaxChunkSize
Overlaps == -1..MaxOverlap

\* String.prototype.lastIndexOf(ch, position): the position is clamped to
\* the string, the result is the last index at or before it that holds ch,
\* or -1
LastIndexOf(s, ch, position) ==
  LET from == MathMin(MathMax(position, 0), Len(s) - 1)
  IN  IF \E k \in 0..from : s[k + 1] = ch
        THEN CHOOSE k \in 0..from :
               s[k + 1] = ch /\ \A j \in (k + 1)..from : s[j + 1] # ch
        ELSE -1

\* where String.prototype.slice puts an index: a negative one counts from
\* the end, and all are clamped to the string
SliceIndex(s, i) == IF i < 0 THEN MathMax(Len(s) + i, 0) ELSE MathMin(i, Len(s))

\* String.prototype.slice(from, to)
Slice(s, from, to) ==
  IF SliceIndex(s, from) >= SliceIndex(s, to) THEN <<>>
  ELSE SubSeq(s, SliceIndex(s, from) + 1, SliceIndex(s, to))

IsWhitespace(c) == c = " "

\* String.prototype.trim
Trim(s) ==
  IF \A i \in 1..Len(s) : IsWhitespace(s[i]) THEN <<>>
  ELSE SubSeq(s,
              CHOOSE i \in 1..Len(s) :
                ~IsWhitespace(s[i]) /\ \A j \in 1..(i - 1) : IsWhitespace(s[j]),
              Len(s) - (CHOOSE d \in 0..(Len(s) - 1) :
                          /\ ~IsWhitespace(s[Len(s) - d])
                          /\ \A e \in 0..(d - 1) : IsWhitespace(s[Len(s) - e])))

\* vectors.ts:94-115, the end of the chunk that starts at st.  The tests
\* against maxChunkSize * 0.7 and * 0.5 are made on tenths and halves: for
\* the sizes used here, and for 2000 and 20000, the double product is exact
\* or is not an integer.
ChunkEnd(t, m, st) ==
  LET end == st + m
      sentenceEnd == LastIndexOf(t, ".", end)
      questionEnd == LastIndexOf(t, "?", end)
      exclamationEnd == LastIndexOf(t, "!", end)
      bestEnd == MathMax(sentenceEnd, MathMax(questionEnd, exclamationEnd))
      spaceIndex == LastIndexOf(t, " ", end)
  IN  IF end < Len(t)
        THEN IF 10 * bestEnd > 10 * st + 7 * m THEN bestEnd + 1
             ELSE IF 2 * spaceIndex > 2 * st + m THEN spaceIndex
             ELSE end
        ELSE end

\* the next start without the guard of Math.max
NextStartUnguarded(st, end, o) == end - o

\* the next start one character further on
NextStartPastEnd(st, end, o) == MathMax(st + 1, end + 1 - o)

\* vectors.ts:123
NextStart(st, end, o) == MathMax(st + 1, end - o)

\* the test with < in place of <=
ReturnedWholeStrict(t, m) == t = <<>> \/ Len(t) < m

\* vectors.ts:86, the test for the text that is returned whole
ReturnedWhole(t, m) == t = <<>> \/ Len(t) <= m

\* vectors.ts:85-91, the call up to the loop, or to its return of [text]
ChunkTextBegins ==
  /\ chunkPc = "called"
  /\ IF ReturnedWhole(text, maxChunkSize)
       THEN chunks' = <<text>> /\ chunkPc' = "returned"
       ELSE chunks' = <<>> /\ chunkPc' = "loop"
  /\ start' = 0
  /\ UNCHANGED <<text, maxChunkSize, overlap, ranges, store, searchVars, storeVars, addVars, extractVars>>

\* vectors.ts:93-124, one iteration of the loop
ChunkTextIterates ==
  /\ chunkPc = "loop"
  /\ start < Len(text)
  /\ LET end == ChunkEnd(text, maxChunkSize, start)
         chunk == Trim(Slice(text, start, end))
     IN  /\ chunks' = IF chunk # <<>> THEN Append(chunks, chunk) ELSE chunks
         /\ ranges' = Append(ranges, [start |-> start, end |-> end])
         /\ start' = NextStart(start, end, overlap)
  /\ UNCHANGED <<text, maxChunkSize, overlap, chunkPc, store, searchVars, storeVars, addVars, extractVars>>

\* vectors.ts:93 and 126, the loop ends and the chunks are returned
ChunkTextReturns ==
  /\ chunkPc = "loop"
  /\ ~(start < Len(text))
  /\ chunkPc' = "returned"
  /\ UNCHANGED <<text, maxChunkSize, overlap, start, chunks, ranges, store, searchVars,
                 storeVars, addVars, extractVars>>

\* a call of chunkText with any text and any parameters
InitChunk ==
  /\ store = <<>> /\ InitSearch /\ InitSingleton /\ InitNoIngestion /\ InitNoExtraction
  /\ text \in Texts /\ maxChunkSize \in ChunkSizes /\ overlap \in Overlaps
  /\ chunkPc = "called" /\ start = 0 /\ chunks = <<>> /\ ranges = <<>>
NextChunk == ChunkTextBegins \/ ChunkTextIterates \/ ChunkTextReturns
SpecChunk == InitChunk /\ [][NextChunk]_vars

\* --------------------------------------------------- extractResumeContent
\* A text is a sequence of one-character strings; "NUL", "BEL", "FFFD" and
\* "U+00E9" stand for one character each, the one of that code point.

\* the characters of a string literal
Chars(str) == <<>> \o [i \in 1..Len(str) |-> SubSeq(str, i, i)]

\* n copies of s, one after the other
RECURSIVE Times(_, _)
Times(s, n) ==
  IF n = 0 THEN <<>>
  ELSE IF n % 2 = 0 THEN LET half == Times(s, n \div 2) IN half \o half
  ELSE s \o Times(s, n - 1)

\* part_000:511-513
maxTokens == 40000
avgCharsPerToken == 4
maxChars == maxTokens * avgCharsPerToken

\* part_000:534, 596 and 607, 544, 626, 551, 646, 558: the lengths the
\* sections are cut to, at their match and when they are pushed (and the
\* education section pushed as it was cut at its match)
PersonalInfoLength == 1000
ExperienceMatchLength == 4000
ExperienceSectionLimit == 5000
EducationMatchLength == 3000
EducationSectionUncut == EducationMatchLength
EducationSectionLimit == 1500
SkillsMatchLength == 3000
SkillsSectionLimit == 1500

\* part_000:606, how far before the first date the experience starts
DateLead == 200

\* part_000:566, the room left for the truncation marker
TruncationRoom == 100

\* String.prototype.substring(from, to), indices from 0
Substring(s, from, to) ==
  LET a == MathMin(MathMax(from, 0), Len(s))
      b == MathMin(MathMax(to, 0), Len(s))
  IN  SubSeq(s, MathMin(a, b) + 1, MathMax(a, b))

\* Array.prototype.join
RECURSIVE Join(_, _)
Join(parts, sep) ==
  IF parts = <<>> THEN <<>>
  ELSE IF Len(parts) = 1 THEN parts[1]
  ELSE parts[1] \o sep \o Join(Tail(parts), sep)

\* the classes of the regular expressions of part_000:524-526
SpaceChars == {" ", "\n", "\t"}
\* the characters written by their names; none of them is printable ASCII
NamedChars == {"NUL", "BEL", "FFFD", "U+00E9", "U+2013", "U+2014"}
PrintableOrSpace(c) == c \notin NamedChars

\* part_000:524, replace(/\s+/g, ' '): the first character of a run of
\* whitespace becomes a space, the others become nothing
CollapseWhitespace(s) ==
  SelectSeq([i \in 1..Len(s) |->
               IF s[i] \in SpaceChars
                 THEN IF i > 1 /\ s[i - 1] \in SpaceChars THEN "" ELSE " "
                 ELSE s[i]],
            LAMBDA c : c # "")

\* part_000:525, replace(/[^\x20-\x7E\n\r\t]/g, '')
RemoveNonPrintable(s) == SelectSeq(s, PrintableOrSpace)

\* s[i] stands in a run of eleven or more of the same character
InLongRun(s, i) ==
  \E j \in MathMax(1, i - 10)..i :
    j + 10 <= Len(s) /\ \A k \in j..(j + 10) : s[k] = s[i]

\* part_000:526, replace(/(.)\1{10,}/g, '$1$1$1'): of a run of eleven or
\* more of one character, other than a line break, the first three stay
CollapseRepeats(s) ==
  SelectSeq([i \in 1..Len(s) |->
               IF /\ i > 3 /\ s[i] # "\n"
                  /\ s[i - 1] = s[i] /\ s[i - 2] = s[i] /\ s[i - 3] = s[i]
                  /\ InLongRun(s, i)
                 THEN "" ELSE s[i]],
            LAMBDA c : c # "")

\* part_000:523-527, cleanedContent
CleanedContent(fullContent) ==
  Trim(CollapseRepeats(RemoveNonPrintable(CollapseWhitespace(fullContent))))

\* the flag i of the regular expressions, for the capitals of the texts
Lower(c) == IF c = "E" THEN "e" ELSE IF c = "S" THEN "s" ELSE IF c = "W" THEN "w" ELSE c

\* the first index from i on whose character is not in the class, or the
\* index past the end
SkipClass(s, i, class) ==
  IF \E j \in i..Len(s) : s[j] \notin class
    THEN CHOOSE j \in i..Len(s) :
           s[j] \notin class /\ \A m \in i..(j - 1) : s[m] \in class
    ELSE Len(s) + 1

\* one alternative of a regular expression is a sequence of characters and
\* of the tokens \s+ (whitespace, once or more), \d (a digit) and [\s\-]+
\* (whitespace, hyphen or dash, once or more); it matches s at i when its
\* elements from the k-th on match there one after the other
Digits == {"0", "1", "2", "9"}
Separators == SpaceChars \cup {"-", "U+2013", "U+2014"}
RECURSIVE MatchFrom(_, _, _, _)
MatchFrom(s, i, alternative, k) ==
  IF k > Len(alternative) THEN TRUE
  ELSE IF i > Len(s) THEN FALSE
  ELSE IF alternative[k] = "\\s+"
    THEN s[i] \in SpaceChars
         /\ MatchFrom(s, SkipClass(s, i, SpaceChars), alternative, k + 1)
  ELSE IF alternative[k] = "[\\s\\-]+"
    THEN s[i] \in Separators
         /\ MatchFrom(s, SkipClass(s, i, Separators), alternative, k + 1)
  ELSE IF alternative[k] = "\\d"
    THEN s[i] \in Digits /\ MatchFrom(s, i + 1, alternative, k + 1)
  ELSE Lower(s[i]) = alternative[k] /\ MatchFrom(s, i + 1, alternative, k + 1)

\* String.prototype.search: the index, from 0, of the first match of one
\* of the alternatives, or -1. Every alternative starts with a character.
Search(s, alternatives) ==
  LET firsts == {a[1] : a \in alternatives}
      Hit(i) == Lower(s[i]) \in firsts /\ \E a \in alternatives : MatchFrom(s, i, a, 1)
  IN  IF \E i \in 1..Len(s) : Hit(i)
        THEN (CHOOSE i \in 1..Len(s) : Hit(i) /\ \A j \in 1..(i - 1) : ~Hit(j)) - 1
        ELSE -1

\* part_000:590-597, 622-628, 642-648: the match of the first pattern, from
\* the k-th on, that matches, or -1
RECURSIVE FirstPatternMatch(_, _, _)
FirstPatternMatch(s, patterns, k) ==
  IF k > Len(patterns) THEN -1
  ELSE LET match == Search(s, patterns[k])
       IN  IF match # -1 THEN match ELSE FirstPatternMatch(s, patterns, k + 1)

\* a word followed by \s+ and a second word
Words(first, second) == Chars(first) \o <<"\\s+">> \o Chars(second)

\* part_000:586-590, with the optional parts written out
experiencePatterns ==
  << {Words("work", "experience"), Chars("experience"), Chars("employment"),
      Words("professional", "experience"), Chars("career")},
     {Words("work", "history"), Chars("history"), Words("employment", "history")},
     {Words("position", "held"), Words("positions", "held")} >>

\* part_000:601, with the alternatives written out
datePattern ==
  {Chars(century) \o <<"\\d", "\\d", "[\\s\\-]+">> \o ending :
     century \in {"19", "20"},
     ending \in {Chars("present"), Chars("current"),
                 Chars("19") \o <<"\\d", "\\d">>, Chars("20") \o <<"\\d", "\\d">>}}

\* part_000:617-621; a match of the third pattern starts where one of its
\* forms without the last optional dot starts
educationPatterns ==
  << {Chars(w) : w \in {"education", "academic", "degree", "university", "college",
                        "school"}},
     {Chars(w) : w \in {"bachelor", "master", "phd", "doctorate", "certificate",
                        "diploma"}},
     {Chars(w) : w \in {"bs", "ba", "b.s", "b.a", "ms", "ma", "m.s", "m.a", "phd",
                        "ph.d"}} >>

\* part_000:637-641
skillsPatterns ==
  << {Chars("skills"), Chars("competencies"), Chars("technologies"),
      Words("technical", "skills")},
     {Chars(w) : w \in {"programming", "software", "tools", "languages"}},
     {Chars("proficient"), Words("experience", "with"), Words("familiar", "with")} >>

\* part_000:578-580
extractSection(s, from, maxLength) ==
  Trim(Substring(s, from, MathMin(from + maxLength, Len(s))))

\* part_000:585-611
extractExperienceSection(s) ==
  LET match == FirstPatternMatch(s, experiencePatterns, 1)
  IN  IF match # -1 THEN extractSection(s, match, ExperienceMatchLength)
      ELSE LET firstMatch == Search(s, datePattern)
           IN  IF firstMatch # -1
                 THEN extractSection(s, MathMax(0, firstMatch - DateLead),
                                     ExperienceMatchLength)
                 ELSE <<>>

\* part_000:616-631
extractEducationSection(s) ==
  LET match == FirstPatternMatch(s, educationPatterns, 1)
  IN  IF match # -1 THEN extractSection(s, match, EducationMatchLength) ELSE <<>>

\* part_000:636-651
extractSkillsSection(s) ==
  LET match == FirstPatternMatch(s, skillsPatterns, 1)
  IN  IF match # -1 THEN extractSection(s, match, SkillsMatchLength) ELSE <<>>

\* part_000:535-538, 542-545, 549-552, 556-559: a section that is not
\* empty is pushed after its header, cut to its limit
Pushed(header, section, sectionLimit) ==
  IF section = <<>> THEN <<>>
  ELSE <<Chars(header), Substring(section, 0, sectionLimit)>>
PersonalInfoPushed(cleaned) ==
  Pushed("=== PERSONAL INFORMATION ===", extractSection(cleaned, 0, PersonalInfoLength),
         PersonalInfoLength)
ExperiencePushed(cleaned) ==
  Pushed("=== WORK EXPERIENCE ===", extractExperienceSection(cleaned),
         ExperienceSectionLimit)
EducationPushed(cleaned) ==
  Pushed("=== EDUCATION ===", extractEducationSection(cleaned), EducationSectionLimit)
SkillsPushed(cleaned) ==
  Pushed("=== SKILLS ===", extractSkillsSection(cleaned), SkillsSectionLimit)

\* part_000:562-570, combinedContent as it is returned
CombinedContent(pushed) ==
  LET combinedContent == Join(pushed, <<"\n", "\n">>)
  IN  IF Len(combinedContent) > maxChars
        THEN Substring(combinedContent, 0, maxChars - TruncationRoom)
               \o Chars("\n\n[Content truncated for processing...]")
        ELSE combinedContent

\* the test of the limit with < instead of <=
ReturnedAsIsStrict(fullContent) == Len(fullContent) < maxChars

\* part_000:516, the content is within the limit and is returned as it is
ReturnedAsIs(fullContent) == Len(fullContent) <= maxChars

\* part_000:510-573
extractResumeContent(fullContent) ==
  IF ReturnedAsIs(fullContent) THEN fullContent
  ELSE LET cleaned == CleanedContent(fullContent)
       IN  IF Len(cleaned) > maxChars
             THEN CombinedContent(PersonalInfoPushed(cleaned) \o ExperiencePushed(cleaned)
                                    \o EducationPushed(cleaned) \o SkillsPushed(cleaned))
             ELSE cleaned

\* In the state a text is kept in pieces: a run of ordinary characters is
\* one string, a named character is a piece of its own.
RECURSIVE Str(_, _, _)
Str(s, from, to) ==
  IF from > to THEN ""
  ELSE IF from = to THEN s[from]
  ELSE LET mid == (from + to) \div 2 IN Str(s, from, mid) \o Str(s, mid + 1, to)
RECURSIVE PackFrom(_, _, _, _)
PackFrom(s, from, named, k) ==
  IF k > Len(named)
    THEN IF from > Len(s) THEN <<>> ELSE <<Str(s, from, Len(s))>>
    ELSE (IF named[k] > from THEN <<Str(s, from, named[k] - 1)>> ELSE <<>>)
           \o <<s[named[k]]>> \o PackFrom(s, named[k] + 1, named, k + 1)
Pack(s) ==
  PackFrom(s, 1, SelectSeq([i \in 1..Len(s) |-> i], LAMBDA i : s[i] \in NamedChars), 1)
RECURSIVE Unpack(_)
Unpack(pieces) ==
  IF pieces = <<>> THEN <<>>
  ELSE (IF pieces[1] \in NamedChars THEN <<pieces[1]>> ELSE Chars(pieces[1]))
         \o Unpack(Tail(pieces))
RECURSIVE TextLength(_)
TextLength(pieces) ==
  IF pieces = <<>> THEN 0
  ELSE (IF pieces[1] \in NamedChars THEN 1 ELSE Len(pieces[1])) + TextLength(Tail(pieces))
PackAll(texts) == [i \in 1..Len(texts) |-> Pack(texts[i])]
UnpackAll(texts) == [i \in 1..Len(texts) |-> Unpack(texts[i])]

\* part_000:516-530, 572: the call up to its return, or to the sections
ExtractBegins ==
  /\ extractPc = "called"
  /\ IF ReturnedAsIs(Unpack(extractContent))
       THEN /\ extracted' = Some(extractContent)
            /\ extractPc' = "returned"
            /\ UNCHANGED cleanedContent
       ELSE /\ cleanedContent' = Pack(CleanedContent(Unpack(extractContent)))
            /\ IF TextLength(cleanedContent') > maxChars
                 THEN extractPc' = "personal" /\ UNCHANGED extracted
                 ELSE extractPc' = "returned" /\ extracted' = Some(cleanedContent')
  /\ UNCHANGED <<extractContent, sections, store, searchVars, storeVars, chunkVars,
                 addVars>>

\* a step of part_000:531-559: the section is looked for and pushed
ExtractStep(from, pushed, to) ==
  /\ extractPc = from
  /\ sections' = sections \o PackAll(pushed)
  /\ extractPc' = to
  /\ UNCHANGED <<extractContent, cleanedContent, extracted, store, searchVars, storeVars,
                 chunkVars, addVars>>

\* part_000:533-538
ExtractPersonalInfo ==
  ExtractStep("personal", PersonalInfoPushed(Unpack(cleanedContent)), "experience")
\* part_000:540-545
ExtractExperience ==
  ExtractStep("experience", ExperiencePushed(Unpack(cleanedContent)), "education")
\* part_000:547-552
ExtractEducation ==
  ExtractStep("education", EducationPushed(Unpack(cleanedContent)), "skills")
\* part_000:554-559
ExtractSkills ==
  ExtractStep("skills", SkillsPushed(Unpack(cleanedContent)), "combining")

\* part_000:561-570
ExtractCombines ==
  /\ extractPc = "combining"
  /\ extracted' = Some(Pack(CombinedContent(UnpackAll(sections))))
  /\ extractPc' = "returned"
  /\ UNCHANGED <<extractContent, cleanedContent, sections, store, searchVars, storeVars,
                 chunkVars, addVars>>

\* the texts extractResumeContent is called with: short ones of any
\* characters, and long ones made of a name, of sections of more than
\* their limits and of filler words
ExtractChars == {"x", " ", "FFFD"}
ShortContents == UNION {[1..n -> ExtractChars] : n \in 0..MaxExtractLen}
Filler == Chars("xyxyxyxyx ")
Padding == Times(Filler, maxChars \div Len(Filler))
NamePart == Chars("Ada Lovelace ")
ExperiencePart == Chars("Work  Experience ") \o Times(Filler, 600)
DatedPart == Times(Filler, 30) \o Chars("2019 - present ") \o Times(Filler, 600)
EducationPart == Chars("Education\n") \o Times(Filler, 400)
SkillsPart == Chars("Skills ") \o Times(Filler, 400)
SectionedContents ==
  {NamePart \o experience \o education \o skills \o Padding :
     experience \in {<<>>, ExperiencePart, DatedPart},
     education \in {<<>>, EducationPart},
     skills \in {<<>>, SkillsPart}}
LongContents ==
  SectionedContents
    \cup {Padding,
          Padding \o <<" ", "FFFD">>,
          SubSeq(Padding, 1, maxChars - 10) \o Times(<<".">>, 50),
          NamePart \o SkillsPart \o EducationPart \o ExperiencePart \o Padding,
          NamePart \o Padding \o Chars("education ") \o <<"U+00E9">>}

InitExtract ==
  /\ store = <<>> /\ InitSearch /\ InitSingleton /\ InitNoChunking /\ InitNoIngestion
  /\ extractContent \in {Pack(s) : s \in ShortContents \cup LongContents}
  /\ extractPc = "called"
  /\ cleanedContent = <<>> /\ sections = <<>> /\ extracted = None
NextExtract ==
  \/ ExtractBegins
  \/ ExtractPersonalInfo
  \/ ExtractExperience
  \/ ExtractEducation
  \/ ExtractSkills
  \/ ExtractCombines
SpecExtract == InitExtract /\ [][NextExtract]_vars

\* -------------------------------------------------------------- addResume
\* The characters of a resume text: a letter, a space, the null byte, a
\* control character of the class [\x00-\x08\x0B\x0C\x0E-\x1F\x7F] other
\* than the null byte (BEL), and the replacement character U+FFFD.
ContentChars == {"a", " ", "NUL", "BEL", "FFFD"}
Contents == UNION {[1..n -> ContentChars] : n \in 0..MaxContentLen}
ControlChars == {"NUL", "BEL"}

\* String.prototype.replace(/[set]/g, '')
RemoveChars(s, set) == SelectSeq(s, LAMBDA c : c \notin set)

\* the cleaning without its last replace, of the replacement character
CleanContentKeepingFFFD(content) ==
  Trim(RemoveChars(RemoveChars(content, {"NUL"}), ControlChars))

\* part_000:670-674
CleanContent(content) ==
  Trim(RemoveChars(RemoveChars(RemoveChars(content, {"NUL"}), ControlChars), {"FFFD"}))

\* part_000:664-678, the error the validation throws, if any
ValidationError(content) ==
  IF Trim(content) = <<>> THEN Some("Resume content cannot be empty")
  ELSE IF CleanContent(content) = <<>> THEN Some("Resume content is empty after cleaning")
  ELSE None

\* an outer catch that returns nothing in place of throwing
AddResumeCatchSwallowing(error) == Returned(None)

\* part_000:781-784, the outer catch: whatever was thrown inside, addResume
\* rejects with the same new error
AddResumeCatch(error) == Threw("Failed to add resume")

\* What parseResume may return.  An experience carries, as blocks, the
\* length of its serialized form in blocks of ten characters: the second
\* resume serializes to more than 20,000 characters, the third to more
\* than 40,000.
ParsedShort ==
  [personalInformation |->
     [name |-> "Ada Lovelace", position |-> [title |-> "Engineer", seniority |-> "senior"]],
   experiences |-> <<[title |-> "Staff Engineer", blocks |-> 3]>>,
   education |-> <<[degree |-> "BSc", field |-> "Mathematics"]>>,
   skills |-> <<"React">>,
   softSkills |-> <<"Mentoring">>]
ParsedLong ==
  [ParsedShort EXCEPT !.experiences = <<[title |-> "Principal Engineer", blocks |-> 2500]>>]
ParsedLonger ==
  [ParsedShort EXCEPT !.experiences = <<[title |-> "Architect", blocks |-> 2500],
                                        [title |-> "Engineer", blocks |-> 2000]>>]
ShortValues == {ParsedShort}
ParsedValues == {ParsedShort, ParsedLong, ParsedLonger}

\* part_000:711-725, the placeholder used when parseResume throws
PlaceholderData ==
  [personalInformation |->
     [name |-> "Unknown", position |-> [title |-> "Unknown", seniority |-> "mid"]],
   experiences |-> <<>>,
   education |-> <<>>,
   skills |-> <<>>,
   softSkills |-> <<>>]

\* parseResume awaited without the inner try/catch
ParseResultUncaught(r) == r

\* part_000:697-727, the inner try/catch around the await of parseResume
ParseResultOrPlaceholder(r) == IF r.threw THEN Returned(PlaceholderData) ELSE r

\* ten characters of a serialized resume
Block == <<"a", "a", "a", "a", "a", "a", "a", "a", "a", " ">>
RECURSIVE Repeat(_, _)
\* String.prototype.repeat
Repeat(s, k) ==
  IF k = 0 THEN <<>>
  ELSE IF k % 2 = 0 THEN Repeat(s \o s, k \div 2)
  ELSE s \o Repeat(s, k - 1)

\* the blocks of a serialized resume that has no experience
SkeletonBlocks == 15

\* JSON.stringify(parsedData), part_000:765 and 778: a text between braces,
\* without white space at its ends, whose length grows with the experiences
JSONStringify(d) ==
  <<"{">> \o Repeat(Block, SkeletonBlocks
                            + SumSeq([i \in 1..Len(d.experiences) |->
                                        d.experiences[i].blocks]))
          \o <<"}">>

RECURSIVE ChunkLoop(_, _, _, _, _)
\* vectors.ts:93-126, the loop of chunkText from the position st on
ChunkLoop(t, m, o, st, acc) ==
  IF st < Len(t)
    THEN LET end == ChunkEnd(t, m, st)
             chunk == Trim(Slice(t, st, end))
         IN  ChunkLoop(t, m, o, NextStart(st, end, o),
                       IF chunk # <<>> THEN Append(acc, chunk) ELSE acc)
    ELSE acc

\* vectors.ts:85-127, the list chunkText returns
chunkText(t, m, o) == IF ReturnedWhole(t, m) THEN <<t>> ELSE ChunkLoop(t, m, o, 0, <<>>)

\* part_000:765, the chunk size and the overlap addResume chunks with
ResumeChunkSize == 20000
ResumeChunkOverlap == 150

\* { ...a, ...b }
Merge(a, b) == [k \in DOMAIN a \cup DOMAIN b |-> IF k \in DOMAIN b THEN b[k] ELSE a[k]]

\* part_000:733, the summary text
ResumeSummary(d) ==
  LET degrees == JoinStr([i \in 1..Len(d.education) |->
                            d.education[i].degree \o " in " \o d.education[i].field], ", ")
  IN  ToString(Len(d.experiences)) \o " years of experience. Education: "
        \o (IF degrees = "" THEN "Not specified" ELSE degrees)

\* part_000:731-733, the keys derived from the parsed data
DerivedMetadata(d) ==
  [name |-> d.personalInformation.name,
   title |-> IF Len(d.experiences) > 0 THEN Some(d.experiences[1].title) ELSE None,
   summary |-> ResumeSummary(d)]

\* the metadata with the caller's keys spread last, after the timestamp
CombinedCmetadataCallerLast(d, cm, now) ==
  LET stamped == Merge(Merge(DerivedMetadata(d), d), [uploadedAt |-> now])
  IN  IF IsSome(cm) THEN Merge(stamped, Val(cm)) ELSE stamped

\* part_000:729-744, combinedCmetadata; cm is the optional argument
CombinedCmetadata(d, cm, now) ==
  LET parsed == Merge(DerivedMetadata(d), d)
      withCaller == IF IsSome(cm) THEN Merge(parsed, Val(cm)) ELSE parsed
  IN  Merge(withCaller, [uploadedAt |-> now])

\* the chunk metadata with the id spread before the combined metadata
ChunkMetadataIdFirst(cs, combined, id) ==
  [i \in 1..Len(cs) |-> Merge([id |-> id], combined)]

\* part_000:769-772, chunkMetadata
ChunkMetadata(cs, combined, id) ==
  [i \in 1..Len(cs) |-> Merge(combined, [id |-> id])]

\* vectors.ts:64-69, the documents and the ids addVectors builds
Documents(cs, metadata) ==
  [i \in 1..Len(cs) |->
     [pageContent |-> cs[i],
      metadata |-> IF i <= Len(metadata) THEN metadata[i] ELSE <<>>]]
DocumentIds(cs) == [i \in 1..Len(cs) |-> "uuid-" \o ToString(i)]

\* the metadata argument of addResume: undefined, or an object
CallerMetadata ==
  {None,
   Some([source |-> "upload form"]),
   Some([name |-> "Caller Name", summary |-> "caller summary"]),
   Some([id |-> "caller-id", uploadedAt |-> "1999-12-31T00:00:00.000Z",
         skills |-> <<"caller skill">>])}

\* new Date().toISOString() and generateId(), part_000:743 and 761
UploadTime == "2026-11-01T04:00:00.000Z"
GeneratedId == "generated-id"

\* part_000:776-784, how addResume ends when the last step it awaited
\* has settled with r
AddResumeSettles(r, record) ==
  IF r.threw THEN AddResumeCatch(r.value) ELSE Returned(record)

\* part_000:663-698, the call up to its await of parseResume, or to the
\* rejection when the validation throws.  The cleaned text is shorter than
\* the limit of extractResumeContent, which returns it as it is.
AddResumeBegins ==
  /\ addPc = "called"
  /\ IF IsSome(ValidationError(resumeContent))
       THEN /\ addPc' = "failed"
            /\ loggedError' = ValidationError(resumeContent)
            /\ addOutcome' = Some(AddResumeCatch(Val(ValidationError(resumeContent))))
            /\ UNCHANGED parseResumeCall
       ELSE /\ addPc' = "parsing"
            /\ parseResumeCall' =
                 Some(extractResumeContent(CleanContent(resumeContent)))
            /\ UNCHANGED <<loggedError, addOutcome>>
  /\ UNCHANGED <<resumeContent, cmetadata, parsedData, combinedCmetadata, addVectorsCall,
                 addDocumentsCall, store, searchVars, storeVars, chunkVars, extractVars>>

\* part_000:698-774 after the await of parseResume has settled with r: the
\* data is merged into the metadata, serialized, chunked and handed to
\* addVectors, which awaits getVectorStore (vectors.ts:62)
AfterParseResume(r) ==
  IF r.threw
    THEN /\ addPc' = "failed"
         /\ loggedError' = Some(r.value)
         /\ addOutcome' = Some(AddResumeCatch(r.value))
         /\ UNCHANGED <<parsedData, combinedCmetadata, addVectorsCall>>
    ELSE /\ parsedData' = Some(r.value)
         /\ combinedCmetadata' = Some(CombinedCmetadata(r.value, cmetadata, UploadTime))
         /\ \E cs \in {chunkText(JSONStringify(r.value), ResumeChunkSize,
                                 ResumeChunkOverlap)} :
              addVectorsCall' =
                Some([chunks |-> cs,
                      metadata |->
                        ChunkMetadata(cs,
                                      CombinedCmetadata(r.value, cmetadata, UploadTime),
                                      GeneratedId)])
         /\ addPc' = "storing"
         /\ UNCHANGED <<loggedError, addOutcome>>

\* part_000:698, parseResume returns a resume of the set D
ParseResumeReturns(D) ==
  /\ addPc = "parsing"
  /\ \E d \in D : AfterParseResume(ParseResultOrPlaceholder(Returned(d)))
  /\ UNCHANGED <<resumeContent, cmetadata, parseResumeCall, addDocumentsCall, store,
                 searchVars, storeVars, chunkVars, extractVars>>

\* part_000:698-699, parseResume throws
ParseResumeThrows ==
  /\ addPc = "parsing"
  /\ AfterParseResume(ParseResultOrPlaceholder(Threw("extraction failed")))
  /\ UNCHANGED <<resumeContent, cmetadata, parseResumeCall, addDocumentsCall, store,
                 searchVars, storeVars, chunkVars, extractVars>>

\* vectors.ts:62-71, getVectorStore resolves and addDocuments is called
AddVectorsGetsStore ==
  /\ addPc = "storing"
  /\ addDocumentsCall' =
       Some([documents |-> Documents(Val(addVectorsCall).chunks,
                                     Val(addVectorsCall).metadata),
             ids |-> DocumentIds(Val(addVectorsCall).chunks)])
  /\ addPc' = "adding"
  /\ UNCHANGED <<resumeContent, cmetadata, parseResumeCall, parsedData, combinedCmetadata,
                 addVectorsCall, loggedError, addOutcome, store, searchVars, storeVars,
                 chunkVars, extractVars>>

\* vectors.ts:62 and part_000:781-784, getVectorStore rejects
AddVectorsStoreThrows ==
  /\ addPc = "storing"
  /\ loggedError' = Some("store unreachable")
  /\ addOutcome' = Some(AddResumeSettles(Threw("store unreachable"), None))
  /\ addPc' = IF addOutcome'[1].threw THEN "failed" ELSE "returned"
  /\ UNCHANGED <<resumeContent, cmetadata, parseResumeCall, parsedData, combinedCmetadata,
                 addVectorsCall, addDocumentsCall, store, searchVars, storeVars, chunkVars, extractVars>>

\* vectors.ts:71-75 and part_000:774-780, addDocuments resolves, so does
\* addVectors, and addResume returns the record
AddVectorsReturns ==
  /\ addPc = "adding"
  /\ addPc' = "returned"
  /\ addOutcome' =
       Some(AddResumeSettles(Returned("added"),
                             [id |-> GeneratedId,
                              document |-> JSONStringify(Val(parsedData)),
                              cmetadata |-> Val(combinedCmetadata)]))
  /\ UNCHANGED <<resumeContent, cmetadata, parseResumeCall, parsedData, combinedCmetadata,
                 addVectorsCall, addDocumentsCall, loggedError, store, searchVars,
                 storeVars, chunkVars, extractVars>>

\* vectors.ts:71 and part_000:774 and 781-784, addDocuments rejects
AddVectorsThrows ==
  /\ addPc = "adding"
  /\ loggedError' = Some("addDocuments failed")
  /\ addOutcome' = Some(AddResumeSettles(Threw("addDocuments failed"), None))
  /\ addPc' = IF addOutcome'[1].threw THEN "failed" ELSE "returned"
  /\ UNCHANGED <<resumeContent, cmetadata, parseResumeCall, parsedData, combinedCmetadata,
                 addVectorsCall, addDocumentsCall, store, searchVars, storeVars, chunkVars, extractVars>>

\* addResume is called and nothing else has happened
InitCalled ==
  /\ store = <<>> /\ InitSearch /\ InitSingleton /\ InitNoChunking /\ InitNoExtraction
  /\ addPc = "called"
  /\ parseResumeCall = None /\ parsedData = None /\ combinedCmetadata = None
  /\ addVectorsCall = None /\ addDocumentsCall = None
  /\ loggedError = None /\ addOutcome = None

\* a call of addResume with any content and any metadata; the parser
\* returns a short resume or fails
InitIngest ==
  /\ InitCalled
  /\ resumeContent \in Contents
  /\ cmetadata \in CallerMetadata
ParseResumeReturnsShort == ParseResumeReturns(ShortValues)
NextIngest ==
  \/ AddResumeBegins
  \/ ParseResumeReturnsShort
  \/ ParseResumeThrows
  \/ AddVectorsGetsStore
  \/ AddVectorsStoreThrows
  \/ AddVectorsReturns
  \/ AddVectorsThrows
SpecIngest == InitIngest /\ [][NextIngest]_vars

\* ---------------------------------------------- addResume of long resumes
\* a call of addResume with a content that passes the validation; the
\* parser returns a resume of any length, or fails
AcceptedContents == {<<"a">>, <<"a", " ", "a">>, <<"BEL", "a", " ">>}
InitIngestChunks ==
  /\ InitCalled
  /\ resumeContent \in AcceptedContents
  /\ cmetadata \in CallerMetadata
ParseResumeReturnsAny == ParseResumeReturns(ParsedValues)
NextIngestChunks ==
  \/ AddResumeBegins
  \/ ParseResumeReturnsAny
  \/ ParseResumeThrows
  \/ AddVectorsGetsStore
  \/ AddVectorsStoreThrows
  \/ AddVectorsReturns
  \/ AddVectorsThrows
SpecIngestChunks == InitIngestChunks /\ [][NextIngestChunks]_vars

\* ================================================================ claims
Candidates == Val(result).candidates
SearchDone == pc = "done" /\ IsSome(result)

\* C1: whatever the order in which the scoring tasks complete, the i-th
\* candidate of the result (and the i-th slot while tasks are still running)
\* is the scored form of the i-th record the retriever returned.
C1_OrderPreserved ==
  /\ pc \in {"scoring", "done"} =>
       /\ Len(resultsWithConfidence) = Len(resumes)
       /\ \A i \in 1..Len(resumes) :
            IsSome(resultsWithConfidence[i]) =>
              /\ Val(resultsWithConfidence[i]).id = resumes[i].id
              /\ Val(resultsWithConfidence[i]).content = resumes[i].document
              /\ tasks[i].state = "done"
  /\ SearchDone =>
       /\ Len(Candidates) = Len(resumes)
       /\ \A i \in 1..Len(resumes) :
            /\ Candidates[i].id = resumes[i].id
            /\ Candidates[i].content = resumes[i].document

\* C1 witness: two different records were retrieved and the scoring task of
\* the second has settled, into the second slot, while the first is running.
C1_Witness ==
  /\ pc = "scoring"
  /\ Len(resumes) = 2
  /\ resumes[1].id # resumes[2].id
  /\ tasks[1].state = "pending"
  /\ tasks[2].state = "done"
  /\ IsSome(resultsWithConfidence[2])
  /\ Val(resultsWithConfidence[2]).id = resumes[2].id

\* the current call of p found the instance unset: it awaits initialize, or
\* has returned the handle it created itself
InFirstUse(p) ==
  \/ callerPc[p] = "initializing"
  \/ /\ callerPc[p] = "returned"
     /\ callerStore[p] = Some(Handle(p, callerCalls[p]))

\* C2: when several getVectorStore calls begin before any of them has
\* finished, the store is initialized exactly once and the callers receive
\* the same handle.
C2_SingleInitialization ==
  \A p, q \in Callers :
    (p # q /\ InFirstUse(p) /\ InFirstUse(q)) =>
      /\ Cardinality(initialized) = 1
      /\ (callerPc[p] = "returned" /\ callerPc[q] = "returned") =>
           callerStore[p] = callerStore[q]

\* C3: no failure of the criteria parser or of a scorer makes the search
\* fail: the only error execute rejects with is the retriever's, and a
\* finished search holds one candidate per retrieved record, totalResults
\* being their number.
C3_GracefulDegradation ==
  /\ pc = "failed" =>
       /\ thrown = Some("Failed to perform semantic search")
       /\ tasks = <<>>
  /\ pc = "done" =>
       /\ IsSome(result)
       /\ Len(Candidates) = Len(resumes)
       /\ Val(result).totalResults = Len(Candidates)
       /\ \A i \in 1..Len(resumes) : Candidates[i].id = resumes[i].id

\* C3 witness: a finished search in which the parser failed, one scorer
\* failed and another one answered.
C3_Witness ==
  /\ SearchDone
  /\ parserOutcome = "threw"
  /\ Len(Candidates) = 2
  /\ tasks[1].generated = "threw"
  /\ tasks[2].generated = "returned"

\* C4: when structured extraction of the query fails, parseSearchQuery
\* returns null and does not throw, retrieval is called with the raw query
\* and the result reports parsedCriteria as null.
C4_ParserFailureFallsBack ==
  parserOutcome = "threw" =>
    /\ thrown # Some("extraction failed")
    /\ parsedCriteria = None
    /\ IsSome(retrievalCall)
    /\ Val(retrievalCall).query = query
    /\ SearchDone =>
         /\ Val(result).parsedCriteria = None
         /\ Val(result).query = query
         /\ Val(result).originalQuery = query

\* C4 witness: a finished search with candidates whose parser call failed.
C4_Witness ==
  /\ SearchDone
  /\ parserOutcome = "threw"
  /\ ~IsBlank(query)
  /\ Len(Candidates) > 0

\* x clamped to lo..hi
Clamped(x, lo, hi) == IF x < lo THEN lo ELSE IF x > hi THEN hi ELSE x

\* C5: when structured scoring fails, the percentage is the integer nearest
\* to the semantic score times 100 clamped to 0..100 (a half rounds up), and
\* the details hold keyStrengths and potentialConcerns and no sub-score key.
C5_FallbackExact ==
  \A i \in 1..Len(tasks) :
    tasks[i].generated = "threw" =>
      LET c == Val(resultsWithConfidence[i])
          x == Clamped(Times100(tasks[i].rawScore), 0, 10000)
      IN  /\ IsSome(resultsWithConfidence[i])
          /\ c.confidence % 100 = 0
          /\ c.confidence - 50 <= x
          /\ x < c.confidence + 50
          /\ c.matchDetails \cap SubScoreKeys = {}
          /\ c.matchDetails = {"keyStrengths", "potentialConcerns"}
          /\ c.rawScore = tasks[i].rawScore

\* C5 witness: the fallback for the score 0.286, which is rounded up to 29.
C5_Witness ==
  /\ Len(tasks) = 1
  /\ tasks[1].generated = "threw"
  /\ tasks[1].rawScore = 286
  /\ Val(resultsWithConfidence[1]).confidence = 2900

\* C6: averageConfidence is the mean of the candidates' confidences rounded
\* to the nearest integer (a half rounds up), and 0 without candidates.
C6_AverageIsRoundedMean ==
  SearchDone =>
    LET n == Len(Candidates)
        sum == SumSeq([i \in 1..n |-> Candidates[i].confidence])
        avg == Val(result).averageConfidence
    IN  IF n = 0 THEN avg = 0
        ELSE /\ avg % 100 = 0
             /\ 2 * n * avg <= 2 * sum + 100 * n
             /\ 2 * n * avg > 2 * sum - 100 * n

\* C6 witness: two candidates with different confidences whose mean is no
\* integer.
C6_Witness ==
  /\ SearchDone
  /\ Len(Candidates) = 2
  /\ Candidates[1].confidence # Candidates[2].confidence
  /\ 2 * Val(result).averageConfidence
       # Candidates[1].confidence + Candidates[2].confidence

\* C7: the semantic score handed to the scorer and reported as rawScore is
\* the score the store returned for the candidate's document, to 3 decimals,
\* whatever metadata is stored with the document.
C7_RawScoreIsStoreScore ==
  (pc \in {"scoring", "done"} /\ ~IsBlank(Val(retrievalCall).query)) =>
    LET kept == SelectSeq(vectorResults, PassesThreshold)
    IN  /\ Len(tasks) = Len(kept)
        /\ \A i \in 1..Len(tasks) :
             /\ tasks[i].rawScore = ToFixed3(kept[i].score)
             /\ IsSome(resultsWithConfidence[i]) =>
                  Val(resultsWithConfidence[i]).rawScore = ToFixed3(kept[i].score)

\* an optional field that is absent or empty
EmptyStr(o) == ~IsSome(o) \/ Val(o) = ""
EmptyList(o) == ~IsSome(o) \/ Val(o) = <<>>
AllFieldsEmpty(c) ==
  /\ EmptyStr(Chain(c.position, "title"))
  /\ ~IsSome(Chain(c.position, "seniority"))
  /\ EmptyList(c.skills)
  /\ ~IsSome(Chain(c.experience, "minYears"))
  /\ EmptyList(Chain(c.experience, "companies"))
  /\ EmptyStr(Chain(c.education, "degree"))
  /\ EmptyStr(Chain(c.education, "field"))
  /\ EmptyStr(c.location)
  /\ EmptyList(c.softSkills)

\* C8: if the parsed criteria are non-null and every field of them is empty
\* or absent, the query sent to retrieval and reported as the result's query
\* is the raw input query.
C8_EmptyCriteriaKeepRawQuery ==
  (IsSome(parsedCriteria) /\ AllFieldsEmpty(Val(parsedCriteria))) =>
    /\ IsSome(retrievalCall)
    /\ Val(retrievalCall).query = query
    /\ SearchDone => Val(result).query = query

\* C8 witness: a finished search of a non-blank query whose criteria object
\* has its fields present and empty.
C8_Witness ==
  /\ SearchDone
  /\ parsedCriteria = Some(HollowCriteria)
  /\ ~IsBlank(query)
  /\ Val(result).query = query

\* the nine fields of the criteria that execute reads, in its order
FieldOrder == <<"title", "seniority", "skills", "minYears", "companies", "degree",
                "field", "location", "softSkills">>
FieldValue(c, f) ==
  CASE f = "title" -> Chain(c.position, "title")
    [] f = "seniority" -> Chain(c.position, "seniority")
    [] f = "skills" -> c.skills
    [] f = "minYears" -> Chain(c.experience, "minYears")
    [] f = "companies" -> Chain(c.experience, "companies")
    [] f = "degree" -> Chain(c.education, "degree")
    [] f = "field" -> Chain(c.education, "field")
    [] f = "location" -> c.location
    [] f = "softSkills" -> c.softSkills
FieldPresent(c, f) == IsSome(FieldValue(c, f))
FieldNonEmpty(c, f) ==
  /\ FieldPresent(c, f)
  /\ CASE f \in {"title", "seniority", "degree", "field", "location"} ->
            Val(FieldValue(c, f)) # ""
       [] f = "minYears" -> Val(FieldValue(c, f)) # 0
       [] f \in {"skills", "companies", "softSkills"} -> Val(FieldValue(c, f)) # <<>>
PartText(c, f) ==
  LET v == Val(FieldValue(c, f))
  IN  CASE f = "title" -> "position: " \o v
        [] f = "seniority" -> "seniority: " \o v
        [] f = "skills" -> "skills: " \o JoinStr([i \in 1..Len(v) |-> SkillText(v[i])], ", ")
        [] f = "minYears" -> "minimum " \o ToString(v) \o " years experience"
        [] f = "companies" -> "companies: " \o JoinStr(v, ", ")
        [] f = "degree" -> "education: " \o v
        [] f = "field" -> "field: " \o v
        [] f = "location" -> "location: " \o v
        [] f = "softSkills" -> "soft skills: " \o JoinStr(v, ", ")
PartsOfFields(c, fields) == [i \in 1..Len(fields) |-> PartText(c, fields[i])]
PresentFields(c) == LET Keep(f) == FieldPresent(c, f) IN SelectSeq(FieldOrder, Keep)
NonEmptyFields(c) == LET Keep(f) == FieldNonEmpty(c, f) IN SelectSeq(FieldOrder, Keep)

\* C9 as stated: for non-null criteria the enriched query has exactly one
\* part for each field present in the criteria, none for an absent one, in
\* the fixed order, joined with ' | '.
C9_PartsForPresentFields ==
  (pc = "retrieving" /\ IsSome(parsedCriteria)) =>
    /\ enhancedQueryParts = PartsOfFields(Val(parsedCriteria),
                                          PresentFields(Val(parsedCriteria)))
    /\ Len(enhancedQueryParts) > 0 => searchQuery = JoinStr(enhancedQueryParts, " | ")

\* C9 as amended: for non-null criteria there is exactly one part for each
\* field that is present with a non-empty value (a non-empty string, a
\* number other than 0, a non-empty list), none for an absent or empty one,
\* in the fixed order; the query is the parts joined with ' | ' when there
\* is a part, and the raw query when there is none.
C9_PartsForNonEmptyFields ==
  (pc = "retrieving" /\ IsSome(parsedCriteria)) =>
    /\ enhancedQueryParts = PartsOfFields(Val(parsedCriteria),
                                          NonEmptyFields(Val(parsedCriteria)))
    /\ Len(enhancedQueryParts) > 0 =>
         /\ searchQuery = JoinStr(enhancedQueryParts, " | ")
         /\ Val(retrievalCall).query = searchQuery
    /\ Len(enhancedQueryParts) = 0 => searchQuery = query

\* C9 witness: criteria with minYears 0, an empty title and an empty
\* companies list next to three non-empty fields, giving three parts.
C9_Witness ==
  /\ pc = "retrieving"
  /\ IsSome(parsedCriteria)
  /\ Chain(Val(parsedCriteria).experience, "minYears") = Some(0)
  /\ Chain(Val(parsedCriteria).position, "title") = Some("")
  /\ Chain(Val(parsedCriteria).experience, "companies") = Some(<<>>)
  /\ Len(enhancedQueryParts) = 3
  /\ searchQuery = "seniority: senior | skills: SQL, Go (expert level) | location: Paris"

\* C10: for every query, a blank one included, and every limit, the search
\* returns at most limit candidates.
C10_AtMostLimit ==
  SearchDone => Len(Candidates) <= limit

\* a search whose retriever was called with a non-blank query and has returned
RetrievedByQuery ==
  /\ pc \in {"scoring", "done"}
  /\ IsSome(retrievalCall)
  /\ ~IsBlank(Val(retrievalCall).query)

\* the positions of the store's answer whose score is above 0.1
AboveThreshold == {i \in 1..Len(vectorResults) : vectorResults[i].score > 1000}

\* the j-th of those positions, counted from the start of the answer
NthAbove(j) ==
  CHOOSE i \in AboveThreshold : Cardinality({k \in AboveThreshold : k < i}) = j - 1

C12_RetrievalFailureIsFatal ==
  /\ [][RetrieveThrows =>
          /\ pc' = "failed"
          /\ thrown' = Some("Failed to perform semantic search")]_vars
  /\ [](pc = "failed" =>
          /\ resumes = <<>>
          /\ tasks = <<>>
          /\ resultsWithConfidence = <<>>
          /\ result = None)

\* C12 witness: the retriever was called with a non-blank query on a store
\* that holds rows, and the search has failed.
C12_Witness ==
  /\ pc = "failed"
  /\ Len(store) > 0
  /\ IsSome(retrievalCall)
  /\ ~IsBlank(Val(retrievalCall).query)
  /\ IsSome(thrown)

\* the documents of the store that JSON.parse rejects: a chunk cut out of a
\* serialized resume, and plain text
NotJson(resume) == resume.document \in {"chunk", "text"}

\* C13: a retrieved candidate whose document is not valid JSON is scored
\* with the empty object as candidate data, holds its place in the result,
\* and the search does not fail once records have been retrieved.
C13_InvalidJsonScoredAsEmpty ==
  /\ pc \in {"scoring", "done"} =>
       /\ Len(tasks) = Len(resumes)
       /\ \A i \in 1..Len(resumes) : NotJson(resumes[i]) => tasks[i].resumeData = "{}"
  /\ SearchDone =>
       \A i \in 1..Len(resumes) :
         NotJson(resumes[i]) =>
           /\ i <= Len(Candidates)
           /\ Candidates[i].id = resumes[i].id
           /\ Candidates[i].content = resumes[i].document
  /\ pc = "failed" => resumes = <<>>

\* C13 witness: a finished search whose first candidate is plain text and
\* whose second is a chunk of a serialized resume.
C13_Witness ==
  /\ SearchDone
  /\ Len(resumes) = 2
  /\ resumes[1].document = "text"
  /\ resumes[2].document = "chunk"
  /\ tasks[1].resumeData = "{}"
  /\ Len(Candidates) = 2

\* the candidates scored so far
Scored == {i \in 1..Len(resultsWithConfidence) : IsSome(resultsWithConfidence[i])}
\* a percentage that is a whole number
WholePercent(p) == p % 100 = 0

\* C14 as stated: every candidate's confidence is an integer between 0 and
\* 100, whether structured scoring answered or the fallback was used.
C14_ConfidenceIsInteger ==
  \A i \in Scored :
    /\ Val(resultsWithConfidence[i]).confidence \in 0..10000
    /\ WholePercent(Val(resultsWithConfidence[i]).confidence)

\* C14 amended: every candidate's confidence is a number between 0 and 100;
\* it is an integer when the fallback was used, and is the percentage the
\* structured scorer returned, integer or not, otherwise.
C14_ConfidenceInRange ==
  /\ \A i \in Scored :
       /\ Val(resultsWithConfidence[i]).confidence \in 0..10000
       /\ tasks[i].generated = "threw" =>
            WholePercent(Val(resultsWithConfidence[i]).confidence)
  /\ SearchDone =>
       \A i \in 1..Len(Candidates) :
         Candidates[i].confidence = Val(resultsWithConfidence[i]).confidence

\* C14 witness: a finished search with a candidate the structured scorer
\* gave 72.5 and a candidate scored by the fallback from a score above 0.
C14_Witness ==
  /\ SearchDone
  /\ \E i, j \in 1..Len(Candidates) :
       /\ tasks[i].generated = "returned"
       /\ Candidates[i].confidence = 7250
       /\ tasks[j].generated = "threw"
       /\ tasks[j].rawScore > 0
       /\ Candidates[j].confidence > 0

\* C15: a text no longer than maxChunkSize, the empty one included, comes
\* back as the one-element list holding the text itself, untrimmed.
C15_ShortTextReturnedWhole ==
  (chunkPc = "returned" /\ Len(text) <= maxChunkSize) => chunks = <<text>>

\* C15 witness: a text that starts and ends with a space was returned as
\* the only chunk.
C15_Witness ==
  /\ chunkPc = "returned"
  /\ Len(text) = 3 /\ maxChunkSize = 3
  /\ text[1] = " " /\ text[3] = " "
  /\ chunks = <<text>>

\* C16: whatever the text, maxChunkSize and overlap, every string of the
\* list chunkText returns is non-empty.
C16_ChunksNonEmpty ==
  chunkPc = "returned" => \A i \in 1..Len(chunks) : chunks[i] # <<>>

\* the positions of the text, counted from 0, that the k-th cut covers
Covered(k) ==
  {p \in 0..(Len(text) - 1) :
     SliceIndex(text, ranges[k].start) <= p /\ p < SliceIndex(text, ranges[k].end)}

\* the parameters C17 is about
SensibleParameters == maxChunkSize >= 1 /\ overlap >= 0

\* C17: for maxChunkSize >= 1 and overlap >= 0 the ranges [start, end) cut
\* by the loop leave no gap: a range starts at or before the end of the one
\* before it and shares at most overlap characters with it, the first
\* starts at 0, and once the loop has ended every character of the text
\* that is not white space lies in a range.
C17_NoGapBoundedOverlap ==
  (SensibleParameters /\ chunkPc \in {"loop", "returned"} /\ Len(ranges) > 0) =>
    /\ ranges[1].start = 0
    /\ \A k \in 1..(Len(ranges) - 1) :
         /\ ranges[k + 1].start <= ranges[k].end
         /\ Cardinality(Covered(k) \cap Covered(k + 1)) <= overlap
    /\ chunkPc = "returned" =>
         \A p \in 0..(Len(text) - 1) :
           ~IsWhitespace(text[p + 1]) => \E k \in 1..Len(ranges) : p \in Covered(k)

\* C17 witness: a text cut into three ranges or more, two consecutive ones
\* sharing exactly overlap characters, overlap being positive.
C17_Witness ==
  /\ SensibleParameters /\ chunkPc = "returned"
  /\ overlap >= 1
  /\ Len(ranges) >= 3
  /\ \E k \in 1..(Len(ranges) - 1) : Cardinality(Covered(k) \cap Covered(k + 1)) = overlap

\* C18: chunkText terminates whatever the text, maxChunkSize and overlap,
\* overlap >= maxChunkSize included: every iteration of the loop moves
\* start forward by at least 1, the loop runs while start is below
\* text.length only, so it makes at most text.length iterations.
C18_StartAdvances ==
  /\ [][ChunkTextIterates => start' >= start + 1]_vars
  /\ [](Len(ranges) <= Len(text))
  /\ []((chunkPc = "loop" /\ Len(ranges) > 0) => start > ranges[Len(ranges)].start)

\* C18 witness: with overlap >= maxChunkSize >= 1 the loop moved start by
\* one character at a time over a text of three characters or more, and
\* the call has returned.
C18_Witness ==
  /\ chunkPc = "returned"
  /\ maxChunkSize >= 1 /\ overlap >= maxChunkSize
  /\ Len(text) >= 3
  /\ Len(ranges) = Len(text)
  /\ \A k \in 1..Len(ranges) : ranges[k].start = k - 1

\* C19: with maxChunkSize >= 1 and overlap >= 0, every chunk chunkText
\* collects has at most maxChunkSize characters, wherever the sentence
\* terminators and the spaces of the text fall.
C19_ChunkAtMostMaxSize ==
  (SensibleParameters /\ chunkPc \in {"loop", "returned"}) =>
    \A i \in 1..Len(chunks) : Len(chunks[i]) <= maxChunkSize

\* a content that is empty, or made of white space, control characters and
\* replacement characters only
NothingToKeep(content) ==
  \A i \in 1..Len(content) : content[i] \in {" ", "NUL", "BEL", "FFFD"}

\* C20: addResume called with a content that is empty, white space only, or
\* empty once control and replacement characters are stripped, fails, and
\* in that call neither parseResume nor addVectors (and so the store's
\* addDocuments) is invoked.
C20_EmptyContentRejected ==
  (addPc \notin {"idle", "called"} /\ NothingToKeep(resumeContent)) =>
    /\ addPc = "failed"
    /\ IsSome(addOutcome) /\ Val(addOutcome).threw
    /\ parseResumeCall = None
    /\ parsedData = None
    /\ addVectorsCall = None
    /\ addDocumentsCall = None

\* C20 witness: a content of a replacement character, a space and a control
\* character, which is not blank before it is cleaned, has been rejected.
C20_Witness ==
  /\ addPc = "failed"
  /\ resumeContent = <<"FFFD", " ", "BEL">>
  /\ loggedError = Some("Resume content is empty after cleaning")
  /\ parseResumeCall = None

\* the errors thrown inside addResume: by the two validation steps and by
\* the store
FailureCauses == {"Resume content cannot be empty",
                  "Resume content is empty after cleaning",
                  "store unreachable",
                  "addDocuments failed"}

\* C21: when addResume fails, the error its caller receives tells which
\* step failed: it is not the error the caller receives when another step
\* fails (the first validation, the second validation, the store).
C21_ErrorIdentifiesStep ==
  (addPc = "failed" /\ IsSome(loggedError) /\ IsSome(addOutcome)) =>
    \A other \in FailureCauses \ {Val(loggedError)} :
      Val(addOutcome).value # AddResumeCatch(other).value

\* the placeholder structure: name "Unknown" and four empty lists
IsPlaceholder(d) ==
  /\ d.personalInformation.name = "Unknown"
  /\ d.experiences = <<>> /\ d.education = <<>>
  /\ d.skills = <<>> /\ d.softSkills = <<>>

\* C22: when parseResume fails addResume goes on with the placeholder
\* structure and submits it to the store; it never fails because of the
\* extraction, and when the store write succeeds it returns the record.
C22_ExtractionFailureUsesPlaceholder ==
  /\ [][ParseResumeThrows =>
          /\ addPc' = "storing"
          /\ IsSome(parsedData') /\ IsPlaceholder(Val(parsedData'))
          /\ IsSome(addVectorsCall')
          /\ Len(Val(addVectorsCall').chunks) >= 1]_vars
  /\ [][AddVectorsReturns =>
          /\ addPc' = "returned"
          /\ IsSome(addOutcome') /\ ~Val(addOutcome').threw
          /\ Val(addOutcome').value.document = JSONStringify(Val(parsedData))]_vars
  /\ [](addPc = "failed" => loggedError # Some("extraction failed"))

\* C22 witness: the parser failed, the store write succeeded and addResume
\* has returned the record of the placeholder.
C22_Witness ==
  /\ addPc = "returned"
  /\ IsSome(parsedData) /\ IsPlaceholder(Val(parsedData))
  /\ IsSome(addDocumentsCall)
  /\ IsSome(addOutcome) /\ ~Val(addOutcome).threw
  /\ Val(addOutcome).value.id = GeneratedId

\* the keys of the caller's metadata, none when no metadata was passed
CallerKeys == IF IsSome(cmetadata) THEN DOMAIN Val(cmetadata) ELSE {}

\* C23: in the metadata addResume builds, every key the caller supplied
\* carries the caller's value, except uploadedAt, which carries the
\* timestamp addResume generated, also when the caller supplied one.
C23_CallerMetadataWins ==
  IsSome(combinedCmetadata) =>
    /\ \A k \in CallerKeys \ {"uploadedAt"} :
         /\ k \in DOMAIN Val(combinedCmetadata)
         /\ Val(combinedCmetadata)[k] = Val(cmetadata)[k]
    /\ "uploadedAt" \in DOMAIN Val(combinedCmetadata)
    /\ Val(combinedCmetadata)["uploadedAt"] = UploadTime

\* C23 witness: the caller supplied its own skills and its own uploadedAt,
\* the parser derived other skills; the metadata carries the caller's
\* skills and the generated timestamp.
C23_Witness ==
  /\ IsSome(combinedCmetadata) /\ IsSome(parsedData)
  /\ {"skills", "uploadedAt"} \subseteq CallerKeys
  /\ Val(parsedData).skills # Val(cmetadata)["skills"]
  /\ Val(cmetadata)["uploadedAt"] # UploadTime
  /\ Val(combinedCmetadata)["skills"] = Val(cmetadata)["skills"]
  /\ Val(combinedCmetadata)["uploadedAt"] = UploadTime

\* C24: when addDocuments fails the call of addResume fails: it settles
\* by throwing and returns no record.
C24_StoreFailureIsFatal ==
  /\ [][AddVectorsThrows =>
          /\ addPc' = "failed"
          /\ IsSome(addOutcome') /\ Val(addOutcome').threw]_vars
  /\ [](loggedError = Some("addDocuments failed") =>
          /\ addPc = "failed"
          /\ IsSome(addOutcome) /\ Val(addOutcome).threw)

\* C24 witness: addDocuments was called with the documents and failed,
\* and addResume has failed.
C24_Witness ==
  /\ addPc = "failed"
  /\ IsSome(addDocumentsCall)
  /\ Len(Val(addDocumentsCall).documents) >= 1
  /\ loggedError = Some("addDocuments failed")
  /\ IsSome(addOutcome) /\ Val(addOutcome).threw

\* the metadata of the documents handed to addDocuments
SubmittedMetadata ==
  [i \in 1..Len(Val(addDocumentsCall).documents) |->
     Val(addDocumentsCall).documents[i].metadata]

\* C27: addResume submits one metadata entry per chunk, every entry
\* carries the generated resume id, also when the caller's metadata has an
\* id key, and the returned record carries the same id.
C27_OneMetadataPerChunkSameId ==
  /\ IsSome(addVectorsCall) =>
       Len(Val(addVectorsCall).metadata) = Len(Val(addVectorsCall).chunks)
  /\ IsSome(addDocumentsCall) =>
       /\ Len(Val(addDocumentsCall).documents) = Len(Val(addVectorsCall).chunks)
       /\ \A i \in 1..Len(SubmittedMetadata) :
            /\ Val(addDocumentsCall).documents[i].pageContent = Val(addVectorsCall).chunks[i]
            /\ "id" \in DOMAIN SubmittedMetadata[i]
            /\ SubmittedMetadata[i]["id"] = GeneratedId
            /\ addPc = "returned" =>
                 SubmittedMetadata[i]["id"] = Val(addOutcome).value.id

\* C27 witness: a resume stored as several chunks for a caller whose
\* metadata has an id key; addResume has returned its record.
C27_Witness ==
  /\ addPc = "returned"
  /\ IsSome(cmetadata) /\ "id" \in DOMAIN Val(cmetadata)
  /\ Val(cmetadata)["id"] # GeneratedId
  /\ IsSome(addDocumentsCall)
  /\ Len(Val(addDocumentsCall).documents) >= 2
  /\ Val(addOutcome).value.id = GeneratedId

\* C25: the text extractResumeContent returns is never longer than 160,000
\* characters, and a content of at most 160,000 characters is returned as
\* it is.
C25_ExtractedWithinLimit ==
  extractPc = "returned" =>
    /\ IsSome(extracted)
    /\ TextLength(Val(extracted)) <= 160000
    /\ TextLength(extractContent) <= 160000 => Val(extracted) = extractContent

\* C25 witness: a content of more than 160,000 characters, also after its
\* cleaning, was reduced to its sections and returned.
C25_Witness ==
  /\ extractPc = "returned"
  /\ TextLength(extractContent) > 160000 /\ TextLength(cleanedContent) > 160000
  /\ Len(sections) >= 2
  /\ IsSome(extracted) /\ TextLength(Val(extracted)) <= 160000

\* the headers of the reduced text, in the order of the claim
SectionHeaders ==
  <<Chars("=== PERSONAL INFORMATION ==="), Chars("=== WORK EXPERIENCE ==="),
    Chars("=== EDUCATION ==="), Chars("=== SKILLS ===")>>

\* the text pushed after the r-th header, empty when the header is absent
BodyOf(pushed, r) ==
  IF \E i \in 1..Len(pushed) : pushed[i] = SectionHeaders[r]
    THEN pushed[(CHOOSE i \in 1..Len(pushed) : pushed[i] = SectionHeaders[r]) + 1]
    ELSE <<>>

\* the texts pushed are headers, each followed by a text that is not empty,
\* and the headers come in the order personal, experience, education, skills
HeadersInOrder(pushed) ==
  /\ Len(pushed) % 2 = 0
  /\ \A i \in 1..(Len(pushed) \div 2) :
       /\ \E r \in 1..4 : pushed[2 * i - 1] = SectionHeaders[r]
       /\ pushed[2 * i] # <<>>
  /\ \A i, j \in 1..(Len(pushed) \div 2) :
       i < j => \E r, q \in 1..4 : /\ r < q
                                   /\ pushed[2 * i - 1] = SectionHeaders[r]
                                   /\ pushed[2 * j - 1] = SectionHeaders[q]

\* where the experience section starts: at the match of the first keyword
\* pattern that matches, else 200 characters before the first date range
ExperienceStart(cleaned) ==
  LET match == FirstPatternMatch(cleaned, experiencePatterns, 1)
  IN  IF match # -1 THEN match
      ELSE LET date == Search(cleaned, datePattern)
           IN  IF date # -1 THEN MathMax(0, date - 200) ELSE -1

\* the text of up to maxLength characters from the position, trimmed, and
\* nothing when there is no position
TextFrom(cleaned, position, maxLength) ==
  IF position = -1 THEN <<>>
  ELSE Trim(SubSeq(cleaned, position + 1, MathMin(position + maxLength, Len(cleaned))))

\* the reduced text is the sections under their headers, in order, each
\* only when it is not empty: the first 1,000 characters, up to 4,000
\* characters from the start of the experience, and of the up to 3,000
\* characters from the match of the education and of the skills the first
\* educationLength and the first skillsLength
SectionsOf(cleaned, pushed, educationLength, skillsLength) ==
  /\ HeadersInOrder(pushed)
  /\ BodyOf(pushed, 1) = TextFrom(cleaned, 0, 1000)
  /\ BodyOf(pushed, 2) = TextFrom(cleaned, ExperienceStart(cleaned), 4000)
  /\ LET education ==
           TextFrom(cleaned, FirstPatternMatch(cleaned, educationPatterns, 1), 3000)
     IN  BodyOf(pushed, 3) = SubSeq(education, 1, MathMin(educationLength, Len(education)))
  /\ LET skills == TextFrom(cleaned, FirstPatternMatch(cleaned, skillsPatterns, 1), 3000)
     IN  BodyOf(pushed, 4) = SubSeq(skills, 1, MathMin(skillsLength, Len(skills)))
  /\ extracted = Some(Pack(Join(pushed, <<"\n", "\n">>)))
SectionsAre(educationLength, skillsLength) ==
  SectionsOf(Unpack(cleanedContent), UnpackAll(sections), educationLength, skillsLength)

\* the call has returned the text reduced to its sections
ReturnedSections == extractPc = "returned" /\ TextLength(cleanedContent) > 160000

\* C28 as stated: the sections come in the order personal, experience,
\* education, skills, each only when not empty; the education and the
\* skills sections are the up to 3,000 characters from their match.
C28_SectionsUpTo3000 == ReturnedSections => SectionsAre(3000, 3000)

\* C28 amended: as stated, but of the up to 3,000 characters from their
\* match the education and the skills sections are the first 1,500.
C28_SectionsUpTo1500 == ReturnedSections => SectionsAre(1500, 1500)

\* C28 witness: the four sections were found; the education and the skills
\* sections hold 1,500 characters, the experience section more than that.
C28_Witness ==
  /\ ReturnedSections
  /\ Len(sections) = 8
  /\ TextLength(sections[4]) > 3000
  /\ TextLength(sections[6]) = 1500 /\ TextLength(sections[8]) = 1500

\* the call of getVectorStore of caller p returns in this step
GetVectorStoreReturns(p) ==
  /\ callerPc'[p] = "returned"
  /\ callerPc[p] # "returned" \/ callerCalls'[p] # callerCalls[p]

\* C29: getVectorStore never returns a handle whose end() has been called,
\* whether it has resolved or not; when end() resolves the instance is
\* unset, and a call that finds no instance initializes a store that has
\* not been ended.
C29_NeverReturnsEndedStore ==
  /\ [][\A p \in Callers :
          GetVectorStoreReturns(p) =>
            IsSome(callerStore'[p]) /\ Val(callerStore'[p]) \notin ended']_vars
  /\ [][EndReturns => vectorStoreInstance' = None]_vars
  /\ [][\A p \in Callers :
          (GetVectorStoreBegins(p) /\ vectorStoreInstance = None) =>
            /\ callerPc'[p] = "initializing"
            /\ Handle(p, callerCalls'[p]) \notin ended]_vars

\* every callback of resumes.map has settled with a candidate
AllScored ==
  /\ Len(resultsWithConfidence) = Len(tasks)
  /\ \A i \in 1..Len(tasks) :
       tasks[i].state = "done" /\ IsSome(resultsWithConfidence[i])

\* C26: the steps of one call are ordered.  Retrieval is called only when
\* the parser has settled, or was not called because useStructuredSearch is
\* false; the scoring tasks start in the step in which retrieval returns,
\* not before; the SearchResult is assembled in a step before which every
\* scoring task has completed.
C26_StepsAreOrdered ==
  /\ [](IsSome(retrievalCall) =>
          IF useStructuredSearch THEN parserOutcome \in {"returned", "threw"}
          ELSE parserOutcome = "not called")
  /\ [](pc \in {"idle", "parsing", "retrieving"} =>
          /\ tasks = <<>> /\ resultsWithConfidence = <<>> /\ result = None
          /\ pc # "retrieving" => vectorResults = <<>>)
  /\ [][(tasks = <<>> /\ tasks' # <<>>) =>
          /\ pc = "retrieving" /\ pc' = "scoring"
          /\ Len(tasks') = Len(resumes')
          /\ \A i \in 1..Len(tasks') : tasks'[i].state = "pending"]_vars
  /\ [][(result = None /\ IsSome(result')) =>
          /\ pc = "scoring" /\ pc' = "done"
          /\ AllScored
          /\ Len(Val(result').candidates) = Len(tasks)]_vars
  /\ [](IsSome(result) => pc = "done" /\ AllScored)

\* C26 witness: a structured search whose parser returned, whose
\* retrieval returned two resumes and whose two scoring tasks completed
\* has assembled its SearchResult.
C26_Witness ==
  /\ pc = "done" /\ IsSome(result)
  /\ useStructuredSearch /\ parserOutcome = "returned"
  /\ Len(tasks) = 2 /\ AllScored
  /\ Val(result).totalResults = 2

\* the rows of the store that carry the same resume id are chunks of that
\* resume
SharedIdsAreChunks ==
  \A a, b \in 1..Len(store) :
    (a # b /\ IsSome(store[a].metaId) /\ store[a].metaId = store[b].metaId) =>
      store[a].pageContent = "chunk" /\ store[b].pageContent = "chunk"

\* C30: the candidates of a SearchResult have pairwise distinct ids, also
\* when the rows retrieved are chunks of one resume.
C30_CandidateIdsDistinct ==
  (IsSome(result) /\ SharedIdsAreChunks) =>
    \A i, j \in 1..Len(Val(result).candidates) :
      i # j => Val(result).candidates[i].id # Val(result).candidates[j].id

====
